---- MODULE Spec2Model ----
(***************************************************************************)
(* A model of the UDPT tracker: the UDP request handlers of               *)
(* src/src/udpTracker.cpp over the SQLite store of                        *)
(* src/src/db/driver_sqlite.cpp.                                          *)
(*                                                                         *)
(* Representation.  Every multi-byte integer of the program that is       *)
(* copied, byte-swapped or stored as a blob is a sequence of bytes in     *)
(* memory order on the little-endian host that tests/main.cpp asserts     *)
(* (Utility.SanityCheck): <<b1, ..., bn>> has the value                   *)
(* b1 + 256*b2 + ...  A 20-byte info-hash or peer id is a sequence of 20  *)
(* bytes, a C string is the sequence of its character codes.              *)
(***************************************************************************)
EXTENDS Integers, Sequences, FiniteSets, TLC

VARIABLES
    db,         \* the SQLite database: torrents, the peer tables, stats
    now,        \* time(NULL)
    conf,       \* tracker.is_dynamic, tracker.allow_remotes, tracker.allow_iana_ips
    last,       \* the operation handled last, with the datagram it sent
    evicted,    \* history: peers a cleanup pass deleted and that have not announced since
    ops,        \* number of requests handled so far (bounded by MaxOps)
    issued,     \* connection ids held by clients, as sent in connect responses
    presented,  \* the last connection id a client presented, and the verdict
    threads     \* the tracker's threads: where each one is, and its locals

vars == <<db, now, conf, last, evicted, ops, issued, presented, threads>>
storeVars == <<db, conf, last, evicted, ops>>
cidVars == <<issued, presented>>

(***************************************************************************)
(* Bounds of the model.                                                    *)
(***************************************************************************)
MaxOps == 2         \* requests (announce, add, remove) handled in one run
MaxTicks == 2       \* steps of the clock in one run
MaxTokens == 1      \* connection ids clients hold at once
MaxCidTicks == 4    \* steps of the clock in one run of SpecCid

(***************************************************************************)
(* Program constants.                                                      *)
(***************************************************************************)
EvictionHorizon == 7200
BucketSeconds == 3600
PeerCap == 30
ScrapeBufferSize == 1024
ErrorBufferSize == 1024

EVENT_UNSPEC == 0
EVENT_COMPLETE == 1
EVENT_START == 2
EVENT_STOP == 3

\* The clock of the model.
TickStep == EvictionHorizon       \* seconds the clock advances in one step
StartTime == 10 * BucketSeconds   \* time(NULL) when the tracker starts
CidTickStep == BucketSeconds \div 2  \* seconds the clock advances in one step of SpecCid

(***************************************************************************)
(* Bytes.                                                                  *)
(***************************************************************************)
Byte == 0..255

Fill(n, b) == [i \in 1..n |-> b]

\* The little-endian bytes of a natural number n < 2^31, in a field of sz bytes.
RECURSIVE ToBytes(_, _)
ToBytes(n, sz) == IF sz = 0 THEN << >> ELSE <<(n % 256)>> \o ToBytes(n \div 256, sz - 1)

\* The value of a little-endian field (for fields whose value fits TLC's integers).
RECURSIVE ToNat(_)
ToNat(b) == IF b = << >> THEN 0 ELSE b[1] + 256 * ToNat(Tail(b))

\* The value of a 4-byte field read as int32_t (two's complement).
ToInt32(b) == IF b[4] >= 128 THEN -(ToNat([i \in 1..4 |-> 255 - b[i]])) - 1 ELSE ToNat(b)

RECURSIVE BitXor(_, _, _)
BitXor(a, b, n) == IF n = 0 THEN 0 ELSE ((a + b) % 2) + 2 * BitXor(a \div 2, b \div 2, n - 1)

RECURSIVE BitOr(_, _, _)
BitOr(a, b, n) ==
    IF n = 0 THEN 0
    ELSE (IF (a % 2) + (b % 2) > 0 THEN 1 ELSE 0) + 2 * BitOr(a \div 2, b \div 2, n - 1)

\* Zero extension of an unsigned field to sz bytes.
ZeroExtend(b, sz) == [i \in 1..sz |-> IF i <= Len(b) THEN b[i] ELSE 0]

Xor(a, b) == [i \in 1..Len(a) |-> BitXor(a[i], b[i], 8)]
Or(a, b) == [i \in 1..Len(a) |-> BitOr(a[i], b[i], 8)]
ShiftLeftBytes(a, k) == [i \in 1..Len(a) |-> IF i <= k THEN 0 ELSE a[i - k]]

(***************************************************************************)
(* tools.c                                                                 *)
(***************************************************************************)
\* An m_byteswap that copies the bytes in their order.
m_byteswapSame(src, sz) == [i \in 1..sz |-> src[i]]

m_byteswap(src, sz) == [i \in 1..sz |-> src[sz + 1 - i]]
m_hton16(n) == m_byteswap(n, 2)
m_hton32(n) == m_byteswap(n, 4)
m_hton64(n) == m_byteswap(n, 8)

hexadecimal == <<48, 49, 50, 51, 52, 53, 54, 55, 56, 57, 97, 98, 99, 100, 101, 102>>

to_hex_str(hash) ==
    [k \in 1..40 |->
        IF k % 2 = 1 THEN hexadecimal[(hash[(k + 1) \div 2] \div 16) + 1]
                     ELSE hexadecimal[(hash[k \div 2] % 16) + 1]]

\* The name of the peer table of a swarm: 't' followed by the hex string.
TableName(info_hash) == <<116>> \o to_hex_str(info_hash)

\* hash_to_str of tools.c: the 40 hex characters of a 20-byte hash, in lower case.
hash_to_str(hash) ==
    [k \in 1..40 |->
        IF k % 2 = 1 THEN hexadecimal[(hash[(k + 1) \div 2] \div 16) + 1]
                     ELSE hexadecimal[(hash[k \div 2] % 16) + 1]]

\* The upper-case spelling of a hex string.
UpperCase(data) == [k \in 1..Len(data) |-> IF data[k] >= 97 THEN data[k] - 32 ELSE data[k]]

hex_from_char(c) ==
    IF 65 <= c /\ c <= 70 THEN 10 + (c - 65)
    ELSE IF 97 <= c /\ c <= 102 THEN 10 + (c - 97)
    ELSE IF 48 <= c /\ c <= 57 THEN c - 48
    ELSE -1

\* str_to_hash(data, hash): the value returned, and the 20 bytes left in hash when
\* it returns 0.  hash[i] is a uint8_t: of (a << 8) | b it keeps the low byte.
str_to_hash(data) ==
    IF \E i \in 1..40 : hex_from_char(data[i]) = -1
    THEN [result |-> -1, hash |-> Fill(20, 0)]
    ELSE [result |-> 0,
          hash |-> [i \in 1..20 |->
                       LET a == hex_from_char(data[2 * i - 1])
                           b == hex_from_char(data[2 * i])
                       IN  ((a * 256) + b) % 256]]


(***************************************************************************)
(* The SQLite store, db/driver_sqlite.cpp.  A database d is a record:     *)
(*   d.torrents  the torrents table: info_hash -> created                 *)
(*   d.tables    the peer tables: table name -> set of rows               *)
(*   d.stats     the stats table: info_hash blob -> row                   *)
(***************************************************************************)
Put(f, k, v) == [x \in (DOMAIN f) \cup {k} |-> IF x = k THEN v ELSE f[x]]
Drop(f, k) == [x \in (DOMAIN f) \ {k} |-> f[x]]
EmptyTable == [x \in {} |-> 0]

EmptyDb == [torrents |-> EmptyTable, tables |-> EmptyTable, stats |-> EmptyTable]

\* uint8_t data[i] of _hash_to_bin for the two hex characters a, b of byte i.
HashToBinByte(a, b) ==
    LET d1 == IF a >= 48 /\ a <= 102 THEN a - 48 ELSE a - 102 + 10
        d2 == (d1 * 16) % 256
        d3 == IF b >= 48 /\ b <= 102 THEN b - 48 ELSE b - 102 + 10
    IN  d3 % 256

_hash_to_bin(hash) == [i \in 1..20 |-> HashToBinByte(hash[2 * i - 1], hash[2 * i])]

getTorrentInfo(d, info_hash) ==
    IF info_hash \in DOMAIN d.stats
    THEN [seeders |-> d.stats[info_hash].seeders,
          leechers |-> d.stats[info_hash].leechers,
          completed |-> d.stats[info_hash].completed,
          gotInfo |-> TRUE]
    ELSE [seeders |-> 0, leechers |-> 0, completed |-> 0, gotInfo |-> FALSE]

Endpoint(row) == [ip |-> row.ip, port |-> row.port]
Endpoints(rows) == {Endpoint(r) : r \in rows}

Min(a, b) == IF a < b THEN a ELSE b

\* The subsets of S that have k elements.
RECURSIVE KSubsets(_, _)
KSubsets(S, k) ==
    IF k = 0 THEN {{}}
    ELSE IF Cardinality(S) < k THEN {}
    ELSE LET x == CHOOSE y \in S : TRUE
         IN  {T \cup {x} : T \in KSubsets(S \ {x}, k - 1)} \cup KSubsets(S \ {x}, k)

\* A getPeers whose SELECT has no LIMIT.
getPeersAll(d, info_hash, max) ==
    IF TableName(info_hash) \notin DOMAIN d.tables THEN {{}}
    ELSE {Endpoints(d.tables[TableName(info_hash)])}

\* A getPeers that selects from no table.
getPeersNone(d, info_hash, max) == {{}}

\* The results getPeers can deliver for *max_count = max: SELECT ip,port ... LIMIT
\* has no ORDER BY, so any max rows of the table; none when the table does not
\* exist (the statement fails to prepare and sqlite3_step reports an error).
getPeers(d, info_hash, max) ==
    IF TableName(info_hash) \notin DOMAIN d.tables THEN {{}}
    ELSE LET eps == Endpoints(d.tables[TableName(info_hash)])
         IN  KSubsets(eps, Min(max, Cardinality(eps)))

\* An addTorrent that replaces the torrents row and creates the peer table anew.
addTorrentRecreate(d, info_hash, t) ==
    [d EXCEPT !.torrents = Put(@, info_hash, t),
              !.tables = Put(@, TableName(info_hash), {})]

\* The value addTorrent returns: whether CREATE TABLE IF NOT EXISTS reported
\* SQLITE_OK, which it does whether or not the table exists; the result of the
\* INSERT into torrents is not looked at.
addTorrentReturn(d, info_hash) ==
    LET r == "SQLITE_OK"
    IN  r = "SQLITE_OK"

addTorrent(d, info_hash, t) ==
    [d EXCEPT
        !.torrents = IF info_hash \in DOMAIN @ THEN @ ELSE Put(@, info_hash, t),
        !.tables = IF TableName(info_hash) \in DOMAIN @ THEN @
                   ELSE Put(@, TableName(info_hash), {})]

\* An INSERT into a peer table that has no uniqueness constraint.
InsertInto(rows, row) == rows \cup {row}

\* REPLACE INTO a peer table under CONSTRAINT c1 UNIQUE (ip,port) ON CONFLICT REPLACE.
ReplaceInto(rows, row) ==
    {r \in rows : ~(r.ip = row.ip /\ r.port = row.port)} \cup {row}

\* An updatePeer that counts every announce in the completed column of the swarm's
\* own stats row.
updatePeerCounting(d, peer_id, info_hash, ip, port, downloaded, left, uploaded, event, t) ==
    LET d1 == addTorrent(d, info_hash, t)
        row == [peer_id |-> peer_id, ip |-> ip, port |-> port, uploaded |-> uploaded,
                downloaded |-> downloaded, left |-> left, last_seen |-> t]
    IN  [d1 EXCEPT
            !.tables[TableName(info_hash)] = ReplaceInto(@, row),
            !.stats = Put(@, info_hash,
                          [completed |-> getTorrentInfo(d, info_hash).completed + 1,
                           leechers |-> 0, seeders |-> 0, last_mod |-> t])]

updatePeer(d, peer_id, info_hash, ip, port, downloaded, left, uploaded, event, t) ==
    LET hash == to_hex_str(info_hash)
        d1 == addTorrent(d, info_hash, t)
        row == [peer_id |-> peer_id, ip |-> ip, port |-> port, uploaded |-> uploaded,
                downloaded |-> downloaded, left |-> left, last_seen |-> t]
    IN  [d1 EXCEPT
            !.tables[TableName(info_hash)] = ReplaceInto(@, row),
            !.stats = Put(@, SubSeq(hash, 1, 20),
                          [completed |-> 0, leechers |-> 0, seeders |-> 0, last_mod |-> t])]

\* An admission check that ignores the torrents table.
isTorrentAllowedAlways(d, isDynamic, info_hash) == TRUE

isTorrentAllowed(d, isDynamic, info_hash) ==
    IF isDynamic THEN TRUE ELSE info_hash \in DOMAIN d.torrents

removeTorrent(d, info_hash) ==
    [torrents |-> Drop(d.torrents, info_hash),
     stats |-> Drop(d.stats, info_hash),
     tables |-> Drop(d.tables, TableName(info_hash))]


\* sqlite3_column_int of a BLOB column: SQLite reads the bytes as text and parses a
\* leading decimal integer (white space, an optional sign, then digits), 0 if none.
RECURSIVE SkipSpace(_)
SkipSpace(z) ==
    IF z /= << >> /\ z[1] \in (9..13) \cup {32} THEN SkipSpace(Tail(z)) ELSE z

RECURSIVE AtoiDigits(_, _)
AtoiDigits(z, acc) ==
    IF z = << >> \/ z[1] \notin 48..57 THEN acc
    ELSE AtoiDigits(Tail(z), acc * 10 + (z[1] - 48))

column_int(blob) ==
    LET z == SkipSpace(blob)
        signed == z /= << >> /\ z[1] \in {43, 45}
        v == AtoiDigits(IF signed THEN Tail(z) ELSE z, 0)
    IN  IF signed /\ z[1] = 45 THEN -v ELSE v

\* SQLite's `left==0` for the BLOB column left: a BLOB never equals an INTEGER.
LeftEqualsZero(left) == FALSE

NoRow == << >>

\* Names of sqlite_master matching LIKE 't' followed by 40 characters.
TorrentTables(d) == {n \in DOMAIN d.tables : Len(n) = 41 /\ n[1] \in {116, 84}}

\* A cleanup whose DELETE removes nothing.
SurvivorsKeepAll(d, tblN, exp) == d.tables[tblN]

\* A cleanup whose DELETE has the comparison the other way round.
SurvivorsExpired(d, tblN, exp) == {r \in d.tables[tblN] : r.last_seen < exp}

Survivors(d, tblN, exp) == {r \in d.tables[tblN] : ~(r.last_seen < exp)}

\* One iteration of cleanup's loop, for table tblN.  All surviving rows fall into the
\* one group of GROUP BY left==0 (LeftEqualsZero); `bare` is the row SQLite takes
\* as the bare column `left` of that group (the left of an arbitrary row of it).
cleanupTable(d, tblN, exp, t, bare) ==
    LET rows == Survivors(d, tblN, exp)
        groups == {g \in {{r \in rows : LeftEqualsZero(r.left) = k} : k \in BOOLEAN} : g /= {}}
        isSeeders == bare /= NoRow /\ column_int(bare) = 0
        seeders == IF groups /= {} /\ isSeeders THEN Cardinality(rows) ELSE 0
        leechers == IF groups /= {} /\ ~isSeeders THEN Cardinality(rows) ELSE 0
    IN  [d EXCEPT
            !.tables[tblN] = rows,
            !.stats = Put(@, _hash_to_bin(Tail(tblN)),
                          [completed |-> 0, leechers |-> leechers, seeders |-> seeders,
                           last_mod |-> t])]

RECURSIVE cleanupLoop(_, _, _, _, _)
cleanupLoop(d, order, bare, exp, t) ==
    IF order = << >> THEN d
    ELSE cleanupLoop(cleanupTable(d, Head(order), exp, t, bare[Head(order)]),
                     Tail(order), bare, exp, t)

\* The orders in which SELECT name FROM sqlite_master can deliver the tables.
Orders(S) ==
    {s \in [1..Cardinality(S) -> S] : \A i, j \in 1..Cardinality(S) : i /= j => s[i] /= s[j]}

\* The values SQLite can deliver as the bare column `left` of each table's group: the
\* left of any row of the group.
BareChoices(d, exp) ==
    LET names == TorrentTables(d)
        lefts(n) == {r.left : r \in Survivors(d, n, exp)}
        all == UNION {lefts(n) : n \in names} \cup {NoRow}
    IN  {f \in [names -> all] :
            \A n \in names : f[n] \in (IF lefts(n) = {} THEN {NoRow} ELSE lefts(n))}

\* The databases a cleanup pass at time t can leave.
cleanup(d, t) ==
    LET exp == t - EvictionHorizon
    IN  {cleanupLoop(d, order, bare, exp, t) :
            order \in Orders(TorrentTables(d)), bare \in BareChoices(d, exp)}

(***************************************************************************)
(* Connection ids.                                                         *)
(***************************************************************************)
Not(b) == [i \in 1..Len(b) |-> 255 - b[i]]
SignExtend(b, sz) ==
    [i \in 1..sz |-> IF i <= Len(b) THEN b[i] ELSE IF b[Len(b)] >= 128 THEN 255 ELSE 0]

\* _genCiD(ip, port) at time(NULL) = t.  ip is a uint32_t, port a uint16_t that the
\* operators promote to int; x is a uint64_t.
_genCiD(ip, port, t) ==
    LET x1 == ToBytes((t \div BucketSeconds) * ToNat(port), 8)  \* overwritten by x2
        x2 == ZeroExtend(Xor(ip, ZeroExtend(port, 4)), 8)
        x3 == ShiftLeftBytes(x2, 2)
        x4 == Or(x3, SignExtend(Not(ZeroExtend(port, 4)), 8))
    IN  x4

genConnectionId(ip, port, t) == _genCiD(ip, port, t)

verifyConnectionId(cId, ip, port, t) == cId = _genCiD(ip, port, t)


(***************************************************************************)
(* Datagrams.  A datagram the tracker sends is a record of its frame's     *)
(* fields as they lie in the send buffer; the peer list of an announce     *)
(* response is kept as the set of its 6-byte entries.                      *)
(***************************************************************************)
\* The bytes of n in network byte order, as a client writes them in a request.
Wire(n, sz) == m_byteswap(ToBytes(n, sz), sz)

NoDatagram == [kind |-> "none"]

\* The process was aborted before it sent anything.
Crashed == [kind |-> "crash"]

PeerListEntry(p) == <<p.ip[4], p.ip[3], p.ip[2], p.ip[1], p.port[2], p.port[1]>>

\* A sendError that sends nothing.
sendErrorSilent(transactionID, msg) == NoDatagram

sendError(transactionID, msg) ==
    LET msg_sz == 4 + 4 + 1 + Len(msg)
    IN  IF msg_sz > ErrorBufferSize THEN NoDatagram
        ELSE [kind |-> "error", action |-> m_hton32(ToBytes(3, 4)),
              transaction_id |-> transactionID, message |-> msg, size |-> msg_sz]

\* An isIANAIP that looks at the last octet of the address.
isIANAIPLastOctet(ip) ==
    LET x == ip[4]
    IN  IF x = 0 \/ x = 10 \/ x = 127 \/ x >= 224 THEN 1 ELSE 0

isIANAIP(ip) ==
    LET x == ip[1]  \* uint8_t x = ip % 256
    IN  IF x = 0 \/ x = 10 \/ x = 127 \/ x >= 224 THEN 1 ELSE 0

TrackerEvent(event) ==
    IF event = ToBytes(1, 4) THEN EVENT_COMPLETE
    ELSE IF event = ToBytes(2, 4) THEN EVENT_START
    ELSE IF event = ToBytes(3, 4) THEN EVENT_STOP
    ELSE EVENT_UNSPEC

AnnounceInterval == 1800

\* What handling a request leaves in `last`: the request, the datagram sent in answer
\* and the database as it was before.
Handled(op, remote, req, outcome, sent) ==
    [op |-> op, remote |-> remote, req |-> req, outcome |-> outcome, sent |-> sent,
     time |-> now, pre |-> db]

NoRequest == [none |-> TRUE]

\* The value of `threads` where the threads of the tracker are not looked at.
NoThreads == [none |-> TRUE]

\* A handleAnnounce that always stores the peer under the datagram's source address.
AnnouncedEndpointSource(remote, req) ==
    [ip |-> m_hton32(remote.s_addr), port |-> m_hton16(req.port)]

\* The endpoint handleAnnounce stores the announcing peer under.
AnnouncedEndpoint(remote, req) ==
    [ip |-> IF m_hton32(req.ip_address) = Fill(4, 0) THEN m_hton32(remote.s_addr)
            ELSE m_hton32(req.ip_address),
     port |-> m_hton16(req.port)]

\* A handleAnnounce that updates the store before it loads the peers.
handleAnnounceUpdateFirst(remote, req) ==
    LET port == m_hton16(req.port)
        ip_address == m_hton32(req.ip_address)
        downloaded == m_hton64(req.downloaded)
        event_raw == m_hton32(req.event)
        uploaded == m_hton64(req.uploaded)
        num_want == ToInt32(m_hton32(req.num_want))
        left == m_hton64(req.left)
        event == TrackerEvent(event_raw)
        q0 == IF num_want >= 1 THEN Min(PeerCap, num_want) ELSE PeerCap
        q1 == IF event = EVENT_STOP THEN 0 ELSE q0
        ip == AnnouncedEndpoint(remote, req).ip
        updated == updatePeer(db, req.peer_id, req.info_hash, ip, port,
                             downloaded, left, uploaded, event, now)
    IN  IF ~verifyConnectionId(req.connection_id, m_hton32(remote.s_addr),
                               m_hton16(remote.sin_port), now)
        THEN /\ last' = Handled("announce", remote, req, "bad_connection_id", NoDatagram)
             /\ UNCHANGED <<db, evicted>>
        ELSE IF ~conf.allow_remotes /\ ip_address /= Fill(4, 0)
        THEN /\ last' = Handled("announce", remote, req, "remote_ip",
                    sendError(req.transaction_id,
                              "Tracker doesn't allow remote IP's; Request ignored."))
             /\ UNCHANGED <<db, evicted>>
        ELSE IF ~isTorrentAllowed(db, conf.is_dynamic, req.info_hash)
        THEN /\ last' = Handled("announce", remote, req, "not_registered",
                    sendError(req.transaction_id, "info_hash not registered."))
             /\ UNCHANGED <<db, evicted>>
        ELSE \E peers \in (IF q1 > 0 THEN getPeers(updated, req.info_hash, q1) ELSE {{}}) :
                LET q == Cardinality(peers)
                    tE == getTorrentInfo(db, req.info_hash)
                    resp == [kind |-> "announce",
                             action |-> m_hton32(ToBytes(1, 4)),
                             transaction_id |-> req.transaction_id,
                             interval |-> m_hton32(ToBytes(AnnounceInterval, 4)),
                             leechers |-> m_hton32(ToBytes(tE.leechers, 4)),
                             seeders |-> m_hton32(ToBytes(tE.seeders, 4)),
                             peers |-> {PeerListEntry(p) : p \in peers},
                             size |-> 20 + 6 * q]
                IN  /\ last' = Handled("announce", remote, req, "served", resp)
                    /\ db' = updated
                    /\ evicted' = evicted \ {[table |-> TableName(req.info_hash),
                                              ip |-> ip, port |-> port]}

\* handleAnnounce from line 231 on, for a request that has passed the checks: it
\* loads the peers, sends the response and updates the store.
handleAnnounceServe(remote, req) ==
    LET port == m_hton16(req.port)
        downloaded == m_hton64(req.downloaded)
        event_raw == m_hton32(req.event)
        uploaded == m_hton64(req.uploaded)
        num_want == ToInt32(m_hton32(req.num_want))
        left == m_hton64(req.left)
        event == TrackerEvent(event_raw)
        q0 == IF num_want >= 1 THEN Min(PeerCap, num_want) ELSE PeerCap
        q1 == IF event = EVENT_STOP THEN 0 ELSE q0
        ip == AnnouncedEndpoint(remote, req).ip
    IN  \E peers \in (IF q1 > 0 THEN getPeers(db, req.info_hash, q1) ELSE {{}}) :
            LET q == Cardinality(peers)
                tE == getTorrentInfo(db, req.info_hash)
                resp == [kind |-> "announce",
                         action |-> m_hton32(ToBytes(1, 4)),
                         transaction_id |-> req.transaction_id,
                         interval |-> m_hton32(ToBytes(AnnounceInterval, 4)),
                         leechers |-> m_hton32(ToBytes(tE.leechers, 4)),
                         seeders |-> m_hton32(ToBytes(tE.seeders, 4)),
                         peers |-> {PeerListEntry(p) : p \in peers},
                         size |-> 20 + 6 * q]
            IN  /\ last' = Handled("announce", remote, req, "served", resp)
                /\ db' = updatePeer(db, req.peer_id, req.info_hash, ip, port,
                                    downloaded, left, uploaded, event, now)
                /\ evicted' = evicted \ {[table |-> TableName(req.info_hash),
                                          ip |-> ip, port |-> port]}

\* handleAnnounce for the datagram `data` received from `remote`: lines 203-229
\* decide whether the request is served, the rest answers it and updates the store.
handleAnnounce(remote, req) ==
    LET ip_address == m_hton32(req.ip_address)
    IN  IF ~verifyConnectionId(req.connection_id, m_hton32(remote.s_addr),
                               m_hton16(remote.sin_port), now)
        THEN /\ last' = Handled("announce", remote, req, "bad_connection_id", NoDatagram)
             /\ UNCHANGED <<db, evicted>>
        ELSE IF ~conf.allow_remotes /\ ip_address /= Fill(4, 0)
        THEN /\ last' = Handled("announce", remote, req, "remote_ip",
                    sendError(req.transaction_id,
                              "Tracker doesn't allow remote IP's; Request ignored."))
             /\ UNCHANGED <<db, evicted>>
        ELSE IF ~isTorrentAllowed(db, conf.is_dynamic, req.info_hash)
        THEN /\ last' = Handled("announce", remote, req, "not_registered",
                    sendError(req.transaction_id, "info_hash not registered."))
             /\ UNCHANGED <<db, evicted>>
        ELSE handleAnnounceServe(remote, req)

\* resolveRequest for an announce datagram (action 1, at least 98 bytes).
resolveAnnounce(remote, req) ==
    IF ~conf.allow_iana_ips /\ isIANAIP(remote.s_addr) = 1
    THEN /\ last' = Handled("announce", remote, req, "iana", NoDatagram)
         /\ UNCHANGED <<db, evicted>>
    ELSE handleAnnounce(remote, req)


\* A handleConnection that mints the id from the port in network byte order.
handleConnectionNoSwap(remote, req) ==
    [kind |-> "connect", action |-> m_hton32(ToBytes(0, 4)),
     transaction_id |-> req.transaction_id,
     connection_id |-> genConnectionId(m_hton32(remote.s_addr), remote.sin_port, now),
     size |-> 16]

\* handleConnection for a connect datagram received from `remote`.
handleConnection(remote, req) ==
    [kind |-> "connect", action |-> m_hton32(ToBytes(0, 4)),
     transaction_id |-> req.transaction_id,
     connection_id |-> genConnectionId(m_hton32(remote.s_addr), m_hton16(remote.sin_port), now),
     size |-> 16]

\* The values the bytes of handleScrape's buffer can have that the handler never
\* writes (uint8_t buffer [1024] is not initialised); all of them are sent.
StaleBytes == {0, 255}

\* The i-th info-hash of a scrape datagram: data[16 + 20*i .. 35 + 20*i].
ScrapedHash(req, i) == req.info_hashes[i]

\* A handleScrape that verifies the connection id before it looks at the length.
handleScrapeVerifyFirst(remote, req) ==
    IF ~verifyConnectionId(req.connection_id, m_hton32(remote.s_addr),
                           m_hton16(remote.sin_port), now)
    THEN last' = Handled("scrape", remote, req, "bad_connection_id", NoDatagram)
    ELSE last' = Handled("scrape", remote, req, "bad_length",
                         sendError(req.transaction_id, "Bad scrape request."))

\* The indices of uint8_t buffer [1024] that handleScrape writes for a datagram with
\* a valid connection id and a valid length, the store being d: 0..7 for the header
\* and i*12+8 .. i*12+19 for every info-hash up to the first one getTorrentInfo
\* fails for.
handleScrapeWrites(d, req) ==
    LET c == (req.len - 16) \div 20
        failing == {i \in 1..c : ~getTorrentInfo(d, ScrapedHash(req, i)).gotInfo}
        n == IF failing = {} THEN c
             ELSE (CHOOSE i \in failing : \A j \in failing : i <= j) - 1
    IN  0..((n - 1) * 12 + 19)

\* The triples that lie wholly inside the buffer.
ScrapeWhole == (ScrapeBufferSize - 8) \div 12

\* handleScrape for the datagram `req` of req.len bytes received from `remote`.  A
\* write at an index past the end of buffer is undefined: the handler carries on,
\* or the process is aborted.
handleScrape(remote, req) ==
    LET v == req.len - 16
        c == v \div 20
        tE(i) == getTorrentInfo(db, ScrapedHash(req, i))
        triple(i) == [seeders |-> m_hton32(ToBytes(tE(i).seeders, 4)),
                      completed |-> m_hton32(ToBytes(tE(i).completed, 4)),
                      leechers |-> m_hton32(ToBytes(tE(i).leechers, 4))]
        overrun == \E k \in handleScrapeWrites(db, req) : k >= ScrapeBufferSize
        outcomes(sent) == IF overrun THEN {sent, Crashed} ELSE {sent}
    IN  IF v < 0 \/ v % 20 /= 0
        THEN last' = Handled("scrape", remote, req, "bad_length",
                             sendError(req.transaction_id, "Bad scrape request."))
        ELSE IF ~verifyConnectionId(req.connection_id, m_hton32(remote.s_addr),
                                    m_hton16(remote.sin_port), now)
        THEN last' = Handled("scrape", remote, req, "bad_connection_id", NoDatagram)
        ELSE IF \E i \in 1..c : ~tE(i).gotInfo
        THEN \E sent \in outcomes(sendError(req.transaction_id,
                                  "Scrape Failed: couldn't retrieve torrent data")) :
                last' = Handled("scrape", remote, req, "no_torrent_data", sent)
        ELSE \E stale \in StaleBytes :
             \E sent \in outcomes(
                    [kind |-> "scrape", action |-> m_hton32(ToBytes(2, 4)),
                     transaction_id |-> req.transaction_id,
                     triples |-> [i \in 1..Min(c, ScrapeWhole) |-> triple(i)],
                     partial |-> IF c > ScrapeWhole
                                 THEN <<triple(ScrapeWhole + 1).seeders,
                                        triple(ScrapeWhole + 1).completed>>
                                 ELSE << >>,
                     rest |-> stale,
                     size |-> ScrapeBufferSize]) :
                last' = Handled("scrape", remote, req, "served", sent)

\* The name under which `last` records a datagram of the given action.
OpName(action) ==
    IF action = 0 THEN "connect"
    ELSE IF action = 1 THEN "announce"
    ELSE IF action = 2 THEN "scrape"
    ELSE "unknown"

\* resolveRequest for the datagram `req` of req.len bytes received from `remote`.
resolveRequest(remote, req) ==
    LET action == ToNat(m_hton32(req.action))
    IN  IF ~conf.allow_iana_ips /\ isIANAIP(remote.s_addr) = 1
        THEN /\ last' = Handled(OpName(action), remote, req, "iana", NoDatagram)
             /\ UNCHANGED <<db, evicted>>
        ELSE IF action = 0 /\ req.len >= 16
        THEN /\ last' = Handled("connect", remote, req, "served",
                                handleConnection(remote, req))
             /\ UNCHANGED <<db, evicted>>
        ELSE IF action = 1 /\ req.len >= 98
        THEN handleAnnounce(remote, req)
        ELSE IF action = 2
        THEN /\ handleScrape(remote, req)
             /\ UNCHANGED <<db, evicted>>
        ELSE /\ last' = Handled(OpName(action), remote, req, "not_understood",
                                sendError(req.transaction_id,
                                          "Tracker couldn't understand Client's request."))
             /\ UNCHANGED <<db, evicted>>

(***************************************************************************)
(* The inputs of the model.                                                *)
(***************************************************************************)
\* struct sockaddr_in of a.b.c.d:port, both fields in network byte order.
SockAddr(a, b, c, d, port) == [s_addr |-> <<a, b, c, d>>, sin_port |-> Wire(port, 2)]

RemoteA == SockAddr(1, 2, 3, 4, 5000)
RemoteB == SockAddr(5, 6, 7, 8, 5000)      \* another host, the same port
RemoteC == SockAddr(1, 2, 3, 4, 6000)      \* the same host, another port
RemoteR == SockAddr(10, 0, 0, 1, 5000)     \* a reserved address

Remotes == {RemoteA, RemoteB, RemoteR}
CidRemotes == {RemoteA, RemoteB, RemoteC}

HashZero == Fill(20, 0)
HashTest == <<198, 112, 96, 110, 221, 34, 253, 14, 59, 67, 44, 151, 117, 89, 166, 135,
              204, 93, 155, 210>>
InfoHashes == {HashZero, HashTest}

PeerIdOf(remote) == Fill(20, remote.s_addr[1])

PeerPort == 51413
BogusConnectionId == Fill(8, 0)
\* 0x41727101980 in network byte order.
MagicConnectionId == <<0, 0, 4, 23, 39, 16, 25, 128>>

ConnectRequest == [connection_id |-> MagicConnectionId, action |-> Wire(0, 4),
                   transaction_id |-> <<18, 52, 171, 205>>]

\* The announce datagrams of the model.  A client is a source address together with
\* the ip field and the num_want it sends (RemoteB also announces on behalf of
\* RemoteA's address, RemoteR on behalf of RemoteB's), and the reports it makes.
LeecherStarts == [left |-> 100, event |-> 2]
SeederStarts == [left |-> 0, event |-> 2]
SeederStops == [left |-> 0, event |-> 3]
SeederCompletes == [left |-> 0, event |-> 1]

Clients ==
    {[remote |-> RemoteA, ip_address |-> Fill(4, 0), num_want |-> Fill(4, 255),
      reports |-> {LeecherStarts, SeederStarts, SeederStops, SeederCompletes}],
     [remote |-> RemoteB, ip_address |-> Fill(4, 0), num_want |-> Wire(1, 4),
      reports |-> {LeecherStarts, SeederStarts, SeederStops}],
     [remote |-> RemoteB, ip_address |-> RemoteA.s_addr, num_want |-> Fill(4, 255),
      reports |-> {SeederStarts}],
     [remote |-> RemoteR, ip_address |-> Fill(4, 0), num_want |-> Wire(50, 4),
      reports |-> {LeecherStarts}],
     [remote |-> RemoteR, ip_address |-> RemoteB.s_addr, num_want |-> Fill(4, 255),
      reports |-> {SeederStarts}]}

AnnounceRequest(client, cid, h, report) ==
    [connection_id |-> cid,
     action |-> Wire(1, 4),
     transaction_id |-> <<18, 52, 171, 205>>,
     info_hash |-> h,
     peer_id |-> PeerIdOf(client.remote),
     downloaded |-> Wire(0, 8),
     left |-> Wire(report.left, 8),
     uploaded |-> Wire(0, 8),
     event |-> Wire(report.event, 4),
     ip_address |-> client.ip_address,
     key |-> Fill(4, 0),
     num_want |-> client.num_want,
     port |-> Wire(PeerPort, 2)]

\* The configurations of the model: the defaults, and each flag changed alone.
DefaultConfig == [is_dynamic |-> TRUE, allow_remotes |-> TRUE, allow_iana_ips |-> FALSE]
Configs == {DefaultConfig,
            [DefaultConfig EXCEPT !.is_dynamic = FALSE],
            [DefaultConfig EXCEPT !.allow_remotes = FALSE],
            [DefaultConfig EXCEPT !.allow_iana_ips = TRUE]}

(***************************************************************************)
(* Actions.                                                                *)
(***************************************************************************)
\* The connection id a connect response carries to `remote` now.
CurrentCid(remote) == _genCiD(m_hton32(remote.s_addr), m_hton16(remote.sin_port), now)

ClientA == CHOOSE c \in Clients : c.remote = RemoteA

\* Every client makes each of its reports for HashTest with a valid connection id;
\* ClientA also announces for HashZero, and once with a connection id never issued.
AnnounceInputs ==
    UNION {{[client |-> c, info_hash |-> HashTest, report |-> r, valid |-> TRUE] :
               r \in c.reports} : c \in Clients}
    \cup {[client |-> ClientA, info_hash |-> HashZero, report |-> LeecherStarts,
           valid |-> TRUE],
          [client |-> ClientA, info_hash |-> HashTest, report |-> LeecherStarts,
           valid |-> FALSE]}

\* A worker receives an announce datagram and handles it.
Announce ==
    /\ ops < MaxOps
    /\ \E a \in AnnounceInputs :
          resolveAnnounce(a.client.remote,
              AnnounceRequest(a.client,
                              IF a.valid THEN CurrentCid(a.client.remote)
                              ELSE BogusConnectionId,
                              a.info_hash, a.report))
    /\ ops' = ops + 1
    /\ UNCHANGED <<now, conf, issued, presented, threads>>

\* m_conn->cleanup() as the maintenance thread calls it.
CleanupPass ==
    /\ \E d \in cleanup(db, now) : db' = d
    /\ last' = Handled("cleanup", NoRequest, NoRequest, "done", NoDatagram)
    /\ evicted' = evicted \cup
          UNION {{[table |-> n, ip |-> r.ip, port |-> r.port] :
                     r \in db.tables[n] \ Survivors(db, n, now - EvictionHorizon)} :
                 n \in TorrentTables(db)}

\* The maintenance thread runs a cleanup pass.
Cleanup ==
    /\ CleanupPass
    /\ UNCHANGED <<now, conf, ops, issued, presented, threads>>

\* The control interface adds an info-hash.
AddTorrent ==
    /\ ops < MaxOps
    /\ \E h \in {HashTest} :
        /\ db' = addTorrent(db, h, now)
        /\ last' = Handled("add", NoRequest, [info_hash |-> h], "done", NoDatagram)
    /\ ops' = ops + 1
    /\ UNCHANGED <<now, conf, evicted, issued, presented, threads>>

\* The control interface removes an info-hash.
RemoveTorrent ==
    /\ ops < MaxOps
    /\ \E h \in {HashTest} :
        /\ db' = removeTorrent(db, h)
        /\ last' = Handled("remove", NoRequest, [info_hash |-> h], "done", NoDatagram)
    /\ ops' = ops + 1
    /\ UNCHANGED <<now, conf, evicted, issued, presented, threads>>

\* Time passes.
Tick ==
    /\ now < StartTime + MaxTicks * TickStep
    /\ now' = now + TickStep
    /\ UNCHANGED <<db, conf, last, evicted, ops, issued, presented, threads>>

Init ==
    /\ db = EmptyDb
    /\ now = StartTime
    /\ conf \in Configs
    /\ last = [op |-> "start", remote |-> NoRequest, req |-> NoRequest, outcome |-> "done",
               sent |-> NoDatagram, time |-> StartTime, pre |-> EmptyDb]
    /\ evicted = {}
    /\ ops = 0
    /\ issued = {}
    /\ presented = NoRequest
    /\ threads = NoThreads

Next == Announce \/ Cleanup \/ AddTorrent \/ RemoveTorrent \/ Tick

Spec == Init /\ [][Next]_vars

(***************************************************************************)
(* Connection ids in use: clients obtain connection ids by connect         *)
(* requests and present them, later and from any address, in announces.   *)
(***************************************************************************)
\* resolveRequest for a connect datagram (action 0, at least 16 bytes).
resolveConnect(remote, req) ==
    IF ~conf.allow_iana_ips /\ isIANAIP(remote.s_addr) = 1
    THEN Handled("connect", remote, req, "iana", NoDatagram)
    ELSE Handled("connect", remote, req, "served", handleConnection(remote, req))

\* A worker receives a connect datagram; the client keeps the connection id.
Connect ==
    /\ \E remote \in CidRemotes :
        /\ last' = resolveConnect(remote, ConnectRequest)
        /\ last'.sent.kind = "connect"
        /\ LET token == [remote |-> remote, time |-> now,
                         connection_id |-> last'.sent.connection_id]
           IN  /\ token \in issued \/ Cardinality(issued) < MaxTokens
               /\ issued' = issued \cup {token}
    /\ UNCHANGED <<db, now, conf, evicted, ops, presented, threads>>

\* A worker receives an announce that carries a connection id some client holds.
AnnounceHeld ==
    /\ ops < MaxOps
    /\ \E remote \in CidRemotes, token \in issued :
        /\ resolveAnnounce(remote,
              AnnounceRequest([remote |-> remote, ip_address |-> Fill(4, 0),
                               num_want |-> Fill(4, 255)],
                              token.connection_id, HashTest, LeecherStarts))
        /\ presented' = [token |-> token, remote |-> remote, time |-> now,
                         accepted |-> last'.outcome /= "bad_connection_id"]
    /\ ops' = ops + 1
    /\ UNCHANGED <<now, conf, issued, threads>>

\* Time passes, half a time bucket at a time.
CidTick ==
    /\ now < StartTime + MaxCidTicks * CidTickStep
    /\ now' = now + CidTickStep
    /\ UNCHANGED <<db, conf, last, evicted, ops, issued, presented, threads>>

InitCid == Init /\ conf = DefaultConfig

NextCid == Connect \/ AnnounceHeld \/ CidTick

SpecCid == InitCid /\ [][NextCid]_vars


(***************************************************************************)
(* SpecPeers: one announce to a swarm that earlier announces have          *)
(* populated, up to one peer more than the peer cap of a response.         *)
(***************************************************************************)
MaxSwarm == PeerCap + 1
SwarmSizes == {0, 2, MaxSwarm}

\* The database after the peers 20.0.0.1 .. 20.0.0.n have announced for HashTest.
RECURSIVE Populate(_)
Populate(n) ==
    IF n = 0 THEN EmptyDb
    ELSE updatePeer(Populate(n - 1), Fill(20, n), HashTest, <<n, 0, 0, 20>>,
                    ToBytes(PeerPort, 2), ToBytes(0, 8),
                    ToBytes(IF n % 2 = 0 THEN 0 ELSE 100, 8), ToBytes(0, 8),
                    EVENT_START, StartTime)

\* The num_want fields of the announces: -1, 0, 1, 2 and 50.
NumWants == {Fill(4, 255), Wire(0, 4), Wire(1, 4), Wire(2, 4), Wire(50, 4)}

InitPeers ==
    /\ \E n \in SwarmSizes : db = Populate(n)
    /\ now = StartTime
    /\ conf = DefaultConfig
    /\ last = [op |-> "start", remote |-> NoRequest, req |-> NoRequest, outcome |-> "done",
               sent |-> NoDatagram, time |-> StartTime, pre |-> db]
    /\ evicted = {}
    /\ ops = 0
    /\ issued = {}
    /\ presented = NoRequest
    /\ threads = NoThreads

\* A worker receives the announce of RemoteA and handles it.
AnnounceWanting ==
    /\ last.op = "start"
    /\ \E num_want \in NumWants, report \in {LeecherStarts, SeederStops} :
          resolveAnnounce(RemoteA,
              AnnounceRequest([remote |-> RemoteA, ip_address |-> Fill(4, 0),
                               num_want |-> num_want],
                              CurrentCid(RemoteA), HashTest, report))
    /\ ops' = ops + 1
    /\ UNCHANGED <<now, conf, issued, presented, threads>>

NextPeers == AnnounceWanting

SpecPeers == InitPeers /\ [][NextPeers]_vars

(***************************************************************************)
(* SpecWire: the dispatcher over datagrams of every action and of several  *)
(* lengths, from a routable and from a reserved source address.            *)
(***************************************************************************)
WireRemotes == {RemoteA, RemoteR}

\* A scrape datagram: the 16-byte header, the listed info-hashes and `extra` more
\* bytes.
ScrapeRequest(cid, hashes, extra) ==
    [connection_id |-> cid, action |-> Wire(2, 4),
     transaction_id |-> <<18, 52, 171, 205>>,
     info_hashes |-> hashes, len |-> 16 + 20 * Len(hashes) + extra]

\* What the four bytes at offset 12 of a worker's tmpBuff can hold when the datagram
\* received into it is shorter than 16 bytes: what an earlier datagram left there.
StaleTransactionIds == {Fill(4, 0), ConnectRequest.transaction_id}

\* The datagrams `remote` sends, as they lie in tmpBuff, with the length recvfrom
\* reports; `cid` ranges over the connection id the tracker issues to `remote` and
\* one it never issued.
WireDatagrams(remote) ==
    LET leecher == [remote |-> remote, ip_address |-> Fill(4, 0), num_want |-> Fill(4, 255)]
        announce(cid) == AnnounceRequest(leecher, cid, HashZero, LeecherStarts)
        cids == {CurrentCid(remote), BogusConnectionId}
    IN  {ConnectRequest @@ [len |-> 16]}
        \cup {[ConnectRequest EXCEPT !.action = Wire(7, 4)] @@ [len |-> 16]}
        \cup {announce(cid) @@ [len |-> 98] : cid \in cids}
        \cup {announce(BogusConnectionId) @@ [len |-> 50]}
        \cup {ScrapeRequest(cid, hashes, 0) :
                 cid \in cids, hashes \in {<<HashZero>>, <<HashZero, HashTest>>}}
        \cup {ScrapeRequest(cid, <<HashZero>>, 7) : cid \in cids}
        \cup {[ConnectRequest EXCEPT !.connection_id = BogusConnectionId] @@ [len |-> 16]}
        \cup {[ConnectRequest EXCEPT !.action = Wire(action, 4), !.transaction_id = stale]
                 @@ [len |-> 12] : action \in {0, 2}, stale \in StaleTransactionIds}

\* A worker receives a datagram and resolves it; a client that is sent a connection
\* id keeps it.
Receive ==
    /\ ops < MaxOps
    /\ \E remote \in WireRemotes : \E req \in WireDatagrams(remote) :
          /\ resolveRequest(remote, req)
          /\ issued' = IF last'.sent.kind = "connect"
                       THEN issued \cup {[remote |-> remote, time |-> now,
                                          connection_id |-> last'.sent.connection_id]}
                       ELSE issued
    /\ ops' = ops + 1
    /\ UNCHANGED <<now, conf, presented, threads>>

NextWire == Receive \/ Cleanup

SpecWire == Init /\ [][NextWire]_vars

(***************************************************************************)
(* SpecError: sendError over messages of every length up to a few bytes    *)
(* past the size of its buffer.                                            *)
(***************************************************************************)
MaxMessage == 1020     \* the longest message handed to sendError

MessageLengths == 0..MaxMessage
ErrorMessage(n) == Fill(n, 88)

\* The indices of char buff [1024] that sendError writes: memcpy fills 0..7, the
\* copy loop runs i = 8 .. msg_sz inclusive.
sendErrorWrites(msg) == 0..(4 + 4 + 1 + Len(msg))

\* The indices of msg that the copy loop reads: msg[i - 8] for i = 8 .. msg_sz.
sendErrorReads(msg) == 0..((4 + 4 + 1 + Len(msg)) - 8)

\* What a call of sendError can do.  A write at an index past the end of buff is
\* undefined: the datagram is sent all the same, or the process is aborted.
sendErrorOutcomes(transactionID, msg) ==
    IF sendError(transactionID, msg) = NoDatagram THEN {NoDatagram}
    ELSE IF \E i \in sendErrorWrites(msg) : i >= ErrorBufferSize
    THEN {sendError(transactionID, msg), Crashed}
    ELSE {sendError(transactionID, msg)}

\* A handler calls sendError with a message of some length.
SendError ==
    /\ \E n \in MessageLengths :
        \E sent \in sendErrorOutcomes(ConnectRequest.transaction_id, ErrorMessage(n)) :
            last' = Handled("error", RemoteA,
                            [transaction_id |-> ConnectRequest.transaction_id,
                             message |-> ErrorMessage(n)],
                            "done", sent)
    /\ UNCHANGED <<db, now, conf, evicted, ops, issued, presented, threads>>

NextError == SendError

SpecError == InitCid /\ [][NextError]_vars


(***************************************************************************)
(* The threads of the tracker.  `threads` is a record:                     *)
(*   configured     tracker.threads                                        *)
(*   m_threadCount  the uint8_t member of that name                        *)
(*   m_shouldRun    the atomic flag the workers poll                       *)
(*   main           where the thread that calls start, stop and wait is    *)
(*   i              the loop index of start                                *)
(*   maintenance    where the maintenance thread is                        *)
(*   workers        how many worker threads are at the head of their loop, *)
(*                  in recvfrom, and past their loop                       *)
(***************************************************************************)
MaxThreads == 257      \* the largest tracker.threads configured

ThreadCounts == 0..MaxThreads

\* m_threadCount = conf["tracker.threads"].as<unsigned>() + 1, stored in a uint8_t.
ThreadCount(configured) == (configured + 1) % 256

\* An m_threadCount as wide as the configured value.
ThreadCountWide(configured) == configured + 1

\* The threads after the constructor; m_shouldRun is not initialised there.
Constructed(configured, flag) ==
    [configured |-> configured, m_threadCount |-> ThreadCount(configured),
     m_shouldRun |-> flag, main |-> "constructed", i |-> 0, maintenance |-> "none",
     workers |-> [loop |-> 0, recv |-> 0, exited |-> 0]]

InitThreads(counts) ==
    /\ db = EmptyDb
    /\ now = StartTime
    /\ conf = DefaultConfig
    /\ last = [op |-> "start", remote |-> NoRequest, req |-> NoRequest, outcome |-> "done",
               sent |-> NoDatagram, time |-> StartTime, pre |-> EmptyDb]
    /\ evicted = {}
    /\ ops = 0
    /\ issued = {}
    /\ presented = NoRequest
    /\ \E configured \in counts, flag \in BOOLEAN : threads = Constructed(configured, flag)

trackerVars == <<db, now, conf, last, evicted, ops, issued, presented>>

\* start(), line 105: the maintenance thread is created.
StartMaintenance ==
    /\ threads.main = "constructed"
    /\ threads' = [threads EXCEPT !.maintenance = "entry", !.main = "created_maintenance"]
    /\ UNCHANGED trackerVars

\* start(), lines 108-109: m_shouldRun = true; i = 1.
StartFlag ==
    /\ threads.main = "created_maintenance"
    /\ threads' = [threads EXCEPT !.m_shouldRun = TRUE, !.i = 1, !.main = "spawning"]
    /\ UNCHANGED trackerVars

\* start(), lines 109-113: one iteration of the loop creates a worker thread.
StartWorker ==
    /\ threads.main = "spawning"
    /\ threads.i < threads.m_threadCount
    /\ threads' = [threads EXCEPT !.workers.loop = @ + 1, !.i = @ + 1]
    /\ UNCHANGED trackerVars

\* start() returns when the loop condition fails.
StartReturn ==
    /\ threads.main = "spawning"
    /\ ~(threads.i < threads.m_threadCount)
    /\ threads' = [threads EXCEPT !.main = "running"]
    /\ UNCHANGED trackerVars

\* stop(), line 118: m_shouldRun = false.
StopFlag ==
    /\ threads.main = "running"
    /\ threads' = [threads EXCEPT !.m_shouldRun = FALSE, !.main = "stopping"]
    /\ UNCHANGED trackerVars

\* stop(), line 121: notify_one wakes the maintenance thread if it is waiting on the
\* condition variable, and does nothing otherwise.
StopNotify ==
    /\ threads.main = "stopping"
    /\ threads' = [threads EXCEPT
                      !.maintenance = IF @ = "waiting" THEN "notified" ELSE @,
                      !.main = "stopped"]
    /\ UNCHANGED trackerVars

\* wait() returns when it has joined every thread of m_threads.
WaitReturn ==
    /\ threads.main = "stopped"
    /\ threads.maintenance = "exited"
    /\ threads.workers.loop = 0 /\ threads.workers.recv = 0
    /\ threads' = [threads EXCEPT !.main = "done"]
    /\ UNCHANGED trackerVars

\* _maintainance_start: the thread locks the mutex and calls wait_for.
MaintenanceEnter ==
    /\ threads.maintenance = "entry"
    /\ threads' = [threads EXCEPT !.maintenance = "waiting"]
    /\ UNCHANGED trackerVars

\* wait_for returns cv_status::timeout after m_cleanupInterval seconds.
MaintenanceTimeout ==
    /\ threads.maintenance = "waiting"
    /\ threads' = [threads EXCEPT !.maintenance = "cleanup"]
    /\ UNCHANGED trackerVars

\* wait_for wakes up spuriously and returns cv_status::no_timeout.
MaintenanceSpurious ==
    /\ threads.maintenance = "waiting"
    /\ threads' = [threads EXCEPT !.maintenance = "notified"]
    /\ UNCHANGED trackerVars

\* wait_for has returned cv_status::no_timeout: break, unlock, the thread ends.
MaintenanceExit ==
    /\ threads.maintenance = "notified"
    /\ threads' = [threads EXCEPT !.maintenance = "exited"]
    /\ UNCHANGED trackerVars

\* After a timeout the thread runs a cleanup pass and calls wait_for again.
MaintenanceCleanup ==
    /\ threads.maintenance = "cleanup"
    /\ CleanupPass
    /\ threads' = [threads EXCEPT !.maintenance = "waiting"]
    /\ UNCHANGED <<now, conf, ops, issued, presented>>

\* _thread_start, line 417: a worker tests m_shouldRun at the head of its loop.
WorkerCheck ==
    /\ threads.workers.loop > 0
    /\ threads' = IF threads.m_shouldRun
                  THEN [threads EXCEPT !.workers.loop = @ - 1, !.workers.recv = @ + 1]
                  ELSE [threads EXCEPT !.workers.loop = @ - 1, !.workers.exited = @ + 1]
    /\ UNCHANGED trackerVars

\* recvfrom returns r <= 0 (SO_RCVTIMEO is 5 s): yield and continue.
WorkerTimeout ==
    /\ threads.workers.recv > 0
    /\ threads' = [threads EXCEPT !.workers.recv = @ - 1, !.workers.loop = @ + 1]
    /\ UNCHANGED trackerVars

\* recvfrom returns a datagram of RemoteA: the worker resolves it and continues.
WorkerReceive ==
    /\ threads.workers.recv > 0
    /\ ops < MaxOps
    /\ \E req \in {ConnectRequest @@ [len |-> 16],
                   AnnounceRequest(ClientA, CurrentCid(RemoteA), HashZero, LeecherStarts)
                     @@ [len |-> 98]} :
          resolveRequest(RemoteA, req)
    /\ ops' = ops + 1
    /\ threads' = [threads EXCEPT !.workers.recv = @ - 1, !.workers.loop = @ + 1]
    /\ UNCHANGED <<now, conf, issued, presented>>

(***************************************************************************)
(* SpecStart: start() for every configured number of worker threads.       *)
(***************************************************************************)
InitStart == InitThreads(ThreadCounts)

NextStart == StartMaintenance \/ StartFlag \/ StartWorker \/ StartReturn

SpecStart == InitStart /\ [][NextStart]_vars

(***************************************************************************)
(* SpecLive: the life of the threads from start() to the return of wait(), *)
(* for one and for two workers.  Every thread that can take a step takes   *)
(* one eventually; when stop() is called, whether a datagram arrives and   *)
(* whether a wait wakes up spuriously are not up to the tracker.           *)
(***************************************************************************)
LiveThreadCounts == {1, 2}

InitLive == InitThreads(LiveThreadCounts)

ThreadSteps ==
    \/ StartMaintenance \/ StartFlag \/ StartWorker \/ StartReturn
    \/ StopNotify \/ WaitReturn
    \/ MaintenanceEnter \/ MaintenanceTimeout \/ MaintenanceExit \/ MaintenanceCleanup
    \/ WorkerCheck \/ WorkerTimeout

NextLive == ThreadSteps \/ StopFlag \/ MaintenanceSpurious \/ WorkerReceive

SpecLive ==
    /\ InitLive
    /\ [][NextLive]_vars
    /\ WF_vars(StartMaintenance) /\ WF_vars(StartFlag) /\ WF_vars(StartWorker)
    /\ WF_vars(StartReturn) /\ WF_vars(StopNotify) /\ WF_vars(WaitReturn)
    /\ WF_vars(MaintenanceEnter) /\ WF_vars(MaintenanceTimeout)
    /\ WF_vars(MaintenanceExit) /\ WF_vars(MaintenanceCleanup)
    /\ WF_vars(WorkerCheck) /\ WF_vars(WorkerTimeout)


(***************************************************************************)
(* SpecApi: the control interface, WebApp::viewApiTorrents.  A request is  *)
(* its method, whether its URI has a query part, and the values of the     *)
(* info_hash parameters of the query.                                      *)
(***************************************************************************)
Loopback == SockAddr(127, 0, 0, 1, 40000)
ApiRemotes == {Loopback, RemoteB}

ApiHashes ==
    {to_hex_str(HashZero), to_hex_str(HashTest), SubSeq(to_hex_str(HashTest), 1, 39),
     Fill(40, 122), UpperCase(hash_to_str(HashTest))}

ApiRequests ==
    [method : {"GET", "POST", "DELETE"}, query : {FALSE}, info_hash : {<< >>}]
    \cup [method : {"GET", "POST", "DELETE"}, query : {TRUE},
          info_hash : {<< >>, <<to_hex_str(HashZero), to_hex_str(HashTest)>>}
                      \cup {<<h>> : h \in ApiHashes}]

HttpReply(code, reason) == [kind |-> "http", code |-> code, reason |-> reason]

\* viewApiTorrents for the request `req` received from `remote`.
viewApiTorrents(remote, req) ==
    IF req.method /= "POST" /\ req.method /= "DELETE"
    THEN /\ last' = Handled("api", remote, req, "bad_method", HttpReply(405, "Bad Method"))
         /\ db' = db
    ELSE IF ~req.query \/ Len(req.info_hash) /= 1 \/ Len(req.info_hash[1]) /= 40
            \/ str_to_hash(req.info_hash[1]).result /= 0
    THEN /\ last' = Handled("api", remote, req, "bad_request", HttpReply(400, "Bad Request"))
         /\ db' = db
    ELSE LET hash == str_to_hash(req.info_hash[1]).hash
         IN  IF req.method = "POST"
             THEN /\ db' = addTorrent(db, hash, now)
                  /\ last' = Handled("api", remote, req, "added",
                                IF addTorrentReturn(db, hash) THEN HttpReply(200, "OK")
                                ELSE HttpReply(500, "Internal Server Error"))
             ELSE /\ db' = removeTorrent(db, hash)
                  /\ last' = Handled("api", remote, req, "removed", HttpReply(200, "OK"))

\* The control interface receives a request.
ApiCall ==
    /\ ops < MaxOps
    /\ \E remote \in ApiRemotes, req \in ApiRequests : viewApiTorrents(remote, req)
    /\ ops' = ops + 1
    /\ UNCHANGED <<now, conf, evicted, issued, presented, threads>>

NextApi == ApiCall

SpecApi == Init /\ [][NextApi]_vars


(***************************************************************************)
(* SpecSteps: removeTorrent and cleanup one SQL statement at a time, while *)
(* workers handle announces.  SQLite runs each statement atomically; the   *)
(* driver opens no transaction and holds no lock from one statement to the *)
(* next.  Here `threads` is a record:                                      *)
(*   api          the control interface's call of removeTorrent: the       *)
(*                statement it is at, and the info-hash                    *)
(*   maintenance  the maintenance thread's call of cleanup: the statement  *)
(*                it is at, the tables getTables has yet to deliver (the   *)
(*                first is tblN), and the locals exp, seeders, leechers    *)
(***************************************************************************)
NoCall ==
    [api |-> [pc |-> "idle", info_hash |-> HashZero],
     maintenance |-> [pc |-> "idle", tables |-> << >>, exp |-> 0,
                      seeders |-> 0, leechers |-> 0]]

\* removeTorrent, lines 359-362: DELETE FROM torrents WHERE info_hash=?
RemoveFromTorrents ==
    /\ threads.api.pc = "idle"
    /\ db' = [db EXCEPT !.torrents = Drop(@, threads.api.info_hash)]
    /\ threads' = [threads EXCEPT !.api.pc = "stats"]
    /\ UNCHANGED <<now, conf, last, evicted, ops, issued, presented>>

\* removeTorrent, lines 366-373: DELETE FROM stats WHERE info_hash=?
RemoveFromStats ==
    /\ threads.api.pc = "stats"
    /\ db' = [db EXCEPT !.stats = Drop(@, threads.api.info_hash)]
    /\ threads' = [threads EXCEPT !.api.pc = "table"]
    /\ UNCHANGED <<now, conf, last, evicted, ops, issued, presented>>

\* removeTorrent, lines 376-383: DROP TABLE IF EXISTS, and the call returns.
RemoveTable ==
    /\ threads.api.pc = "table"
    /\ db' = [db EXCEPT !.tables = Drop(@, TableName(threads.api.info_hash))]
    /\ threads' = [threads EXCEPT !.api.pc = "idle"]
    /\ UNCHANGED <<now, conf, last, evicted, ops, issued, presented>>

\* The maintenance thread after the iteration for tblN: the next table, or the end
\* of the pass.
NextTable(m) ==
    [m EXCEPT !.tables = Tail(@),
              !.pc = IF Tail(m.tables) = << >> THEN "idle" ELSE "delete"]

\* cleanup, lines 289-309: exp is computed and getTables is prepared.
CleanupBegin ==
    /\ threads.maintenance.pc = "idle"
    /\ TorrentTables(db) /= {}
    /\ \E order \in Orders(TorrentTables(db)) :
          threads' = [threads EXCEPT !.maintenance =
                         [pc |-> "delete", tables |-> order, exp |-> now - EvictionHorizon,
                          seeders |-> 0, leechers |-> 0]]
    /\ UNCHANGED trackerVars

\* cleanup, lines 311-319: DELETE FROM tblN WHERE last_seen<exp; on an error (the
\* table is gone) the loop continues with the next table.
CleanupDelete ==
    /\ threads.maintenance.pc = "delete"
    /\ LET m == threads.maintenance
           tblN == Head(m.tables)
       IN  IF tblN \notin DOMAIN db.tables
           THEN /\ threads' = [threads EXCEPT !.maintenance = NextTable(m)]
                /\ UNCHANGED <<db, evicted>>
           ELSE /\ db' = [db EXCEPT !.tables[tblN] = Survivors(db, tblN, m.exp)]
                /\ evicted' = evicted \cup
                      {[table |-> tblN, ip |-> r.ip, port |-> r.port] :
                          r \in db.tables[tblN] \ Survivors(db, tblN, m.exp)}
                /\ threads' = [threads EXCEPT !.maintenance.pc = "count"]
    /\ UNCHANGED <<now, conf, last, ops, issued, presented>>

\* cleanup, lines 321-342: SELECT left,COUNT(*) FROM tblN GROUP BY left==0 into the
\* locals seeders and leechers; when the statement cannot be prepared (the table is
\* gone) the loop continues with the next table.
CleanupCount ==
    /\ threads.maintenance.pc = "count"
    /\ LET m == threads.maintenance
           tblN == Head(m.tables)
       IN  IF tblN \notin DOMAIN db.tables
           THEN threads' = [threads EXCEPT !.maintenance = NextTable(m)]
           ELSE \E bare \in (IF db.tables[tblN] = {} THEN {NoRow}
                             ELSE {r.left : r \in db.tables[tblN]}) :
                   LET isSeeders == bare /= NoRow /\ column_int(bare) = 0
                       n == Cardinality(db.tables[tblN])
                   IN  threads' = [threads EXCEPT !.maintenance =
                                      [m EXCEPT !.pc = "write",
                                                !.seeders = IF isSeeders THEN n ELSE 0,
                                                !.leechers = IF isSeeders THEN 0 ELSE n]]
    /\ UNCHANGED trackerVars

\* cleanup, lines 344-350: REPLACE INTO stats (info_hash,seeders,leechers,last_mod).
CleanupWrite ==
    /\ threads.maintenance.pc = "write"
    /\ LET m == threads.maintenance
           tblN == Head(m.tables)
       IN  /\ db' = [db EXCEPT !.stats =
                        Put(@, _hash_to_bin(Tail(tblN)),
                            [completed |-> 0, leechers |-> m.leechers,
                             seeders |-> m.seeders, last_mod |-> now])]
           /\ threads' = [threads EXCEPT !.maintenance = NextTable(m)]
    /\ UNCHANGED <<now, conf, last, evicted, ops, issued, presented>>

InitSteps ==
    /\ db = EmptyDb
    /\ now = StartTime
    /\ conf = DefaultConfig
    /\ last = [op |-> "start", remote |-> NoRequest, req |-> NoRequest, outcome |-> "done",
               sent |-> NoDatagram, time |-> StartTime, pre |-> EmptyDb]
    /\ evicted = {}
    /\ ops = 0
    /\ issued = {}
    /\ presented = NoRequest
    /\ threads = NoCall

NextSteps ==
    \/ Announce
    \/ RemoveFromTorrents \/ RemoveFromStats \/ RemoveTable
    \/ CleanupBegin \/ CleanupDelete \/ CleanupCount \/ CleanupWrite

SpecSteps == InitSteps /\ [][NextSteps]_vars


(***************************************************************************)
(* SpecSwap: the byte-order helpers of tools.c applied to values of each   *)
(* width.  A value is its bytes as they lie in memory.                     *)
(***************************************************************************)
SwapBytes16 == {0, 1, 127, 128, 173, 222, 255}
SwapBytes32 == {0, 173, 190, 222, 239, 255}
SwapBytes64 == {0, 255}

\* 0xDEADBEEFA1B2C3E4 as it lies in memory.
Magic64 == <<228, 195, 178, 161, 239, 190, 173, 222>>

SwapInputs ==
    [1..2 -> SwapBytes16] \cup [1..4 -> SwapBytes32] \cup [1..8 -> SwapBytes64]
    \cup {Magic64}

\* What the eight bytes of an uninitialized uint64_t can hold.
Uninitialized64 == {Fill(8, 0), Fill(8, 255), <<1, 2, 3, 4, 5, 6, 7, 8>>}

\* m_hton32 as compiled: r is a uint64_t that is never initialized; m_byteswap
\* writes its first four bytes, and the return converts r to uint32_t, which
\* keeps the four low-order bytes, the first four in memory.
m_hton32Truncating(n, r0) ==
    LET r == [i \in 1..8 |-> IF i <= 4 THEN m_byteswap(n, 4)[i] ELSE r0[i]]
    IN  SubSeq(r, 1, 4)

\* The helper of the width of n.
m_hton(n, r0) ==
    IF Len(n) = 2 THEN m_hton16(n)
    ELSE IF Len(n) = 4 THEN m_hton32Truncating(n, r0)
    ELSE m_hton64(n)

\* The helper is applied to a value, and again to its result.
Swap ==
    /\ last.op = "value"
    /\ \E r0 \in Uninitialized64, r1 \in Uninitialized64 :
        last' = [op |-> "swapped", n |-> last.n, r |-> m_hton(last.n, r0),
                 rr |-> m_hton(m_hton(last.n, r0), r1)]
    /\ UNCHANGED <<db, now, conf, evicted, ops, issued, presented, threads>>

InitSwap ==
    /\ db = EmptyDb
    /\ now = StartTime
    /\ conf = DefaultConfig
    /\ \E n \in SwapInputs : last = [op |-> "value", n |-> n]
    /\ evicted = {}
    /\ ops = 0
    /\ issued = {}
    /\ presented = NoRequest
    /\ threads = NoThreads

NextSwap == Swap

SpecSwap == InitSwap /\ [][NextSwap]_vars


(***************************************************************************)
(* SpecScrape: scrape datagrams listing up to as many info-hashes as fit   *)
(* the receive buffer of a worker, against a store in which an announce    *)
(* and a cleanup pass have left a stats row.                               *)
(***************************************************************************)
UDP_BUFFER_SIZE == 2048

\* The most info-hashes a datagram of at most UDP_BUFFER_SIZE bytes can list.
MaxScraped == (UDP_BUFFER_SIZE - 16) \div 20

ScrapeCounts == {0, 1, ScrapeWhole, ScrapeWhole + 1, MaxScraped}

\* The datagrams `remote` sends: an announce for HashZero, and scrapes that list one
\* info-hash k times, or HashZero as often as overruns the buffer and then HashTest.
ScrapeDatagrams(remote) ==
    LET leecher == [remote |-> remote, ip_address |-> Fill(4, 0), num_want |-> Fill(4, 255)]
    IN  {AnnounceRequest(leecher, CurrentCid(remote), HashZero, LeecherStarts)
            @@ [len |-> 98]}
        \cup {ScrapeRequest(CurrentCid(remote), [i \in 1..k |-> h], 0) :
                 k \in ScrapeCounts, h \in {HashZero, HashTest}}
        \cup {ScrapeRequest(CurrentCid(remote),
                            [i \in 1..(ScrapeWhole + 2) |->
                                IF i <= ScrapeWhole + 1 THEN HashZero ELSE HashTest], 0)}

\* A worker receives one of these datagrams and resolves it.
ReceiveScrape ==
    /\ ops < MaxOps
    /\ last.sent /= Crashed
    /\ \E remote \in {RemoteA, RemoteB} : \E req \in ScrapeDatagrams(remote) :
          resolveRequest(remote, req)
    /\ ops' = ops + 1
    /\ UNCHANGED <<now, conf, issued, presented, threads>>

\* The maintenance thread runs a cleanup pass, the process being alive.
CleanupAlive == last.sent /= Crashed /\ Cleanup

NextScrape == ReceiveScrape \/ CleanupAlive

SpecScrape == Init /\ [][NextScrape]_vars


(***************************************************************************)
(* SpecBuffer: one worker and its receive buffer.  recvfrom overwrites the *)
(* first r bytes of tmpBuff and leaves the rest as it was; resolveRequest  *)
(* reads the header fields at their offsets in tmpBuff.  Only the 16 bytes *)
(* of the header are kept.                                                 *)
(***************************************************************************)
HeaderSize == 16

BufferRemotes == {RemoteA, RemoteB}

\* The transaction id a client puts in its datagrams.
TransactionIdOf(remote) == remote.s_addr

Header(connection_id, action, transaction_id) == connection_id \o action \o transaction_id

\* The datagrams `remote` sends: a connect, a scrape that lists no info-hash, a
\* datagram of an unknown action, and the first 8 and 12 bytes of them.
BufferDatagrams(remote) ==
    LET whole == {Header(MagicConnectionId, Wire(0, 4), TransactionIdOf(remote)),
                  Header(CurrentCid(remote), Wire(2, 4), TransactionIdOf(remote)),
                  Header(MagicConnectionId, Wire(7, 4), TransactionIdOf(remote))}
    IN  whole \cup {SubSeq(d, 1, r) : d \in whole, r \in {8, 12}}

\* tmpBuff after recvfrom has stored the datagram `data` in it.
recvfrom(tmpBuff, data) ==
    [i \in 1..HeaderSize |-> IF i <= Len(data) THEN data[i] ELSE tmpBuff[i]]

\* The request as the handlers read it from tmpBuff, r being what recvfrom returned.
RequestIn(tmpBuff, r) ==
    [connection_id |-> SubSeq(tmpBuff, 1, 8), action |-> SubSeq(tmpBuff, 9, 12),
     transaction_id |-> SubSeq(tmpBuff, 13, 16), info_hashes |-> << >>, len |-> r]

\* One iteration of the loop of _thread_start.
ReceiveInto ==
    /\ ops < MaxOps
    /\ \E remote \in BufferRemotes : \E data \in BufferDatagrams(remote) :
          /\ resolveRequest(remote, RequestIn(recvfrom(threads.tmpBuff, data), Len(data)))
          /\ threads' = [tmpBuff |-> recvfrom(threads.tmpBuff, data),
                         held |-> threads.tmpBuff,
                         from |-> remote, r |-> Len(data),
                         prev |-> threads.from, prev_r |-> threads.r]
          /\ issued' = IF last'.sent.kind = "connect"
                       THEN issued \cup {[remote |-> remote, time |-> now,
                                          connection_id |-> last'.sent.connection_id]}
                       ELSE issued
    /\ ops' = ops + 1
    /\ UNCHANGED <<now, conf, presented>>

\* The values the bytes of char tmpBuff[UDP_BUFFER_SIZE], which is not initialized,
\* have when the worker starts (below 128: the action field is decoded as a number).
FreshBytes == {0, 127}

InitBuffer ==
    /\ db = EmptyDb
    /\ now = StartTime
    /\ conf \in Configs
    /\ last = [op |-> "start", remote |-> NoRequest, req |-> NoRequest, outcome |-> "done",
               sent |-> NoDatagram, time |-> StartTime, pre |-> EmptyDb]
    /\ evicted = {}
    /\ ops = 0
    /\ issued = {}
    /\ presented = NoRequest
    /\ \E b \in FreshBytes :
          threads = [tmpBuff |-> Fill(HeaderSize, b), held |-> Fill(HeaderSize, b),
                     from |-> NoRequest, r |-> 0, prev |-> NoRequest, prev_r |-> 0]

NextBuffer == ReceiveInto

SpecBuffer == InitBuffer /\ [][NextBuffer]_vars


(***************************************************************************)
(* SpecAdmit: a worker's handleAnnounce in two steps, the checks of lines  *)
(* 203-229 and the rest, while the control interface, on its own thread    *)
(* and on the same store, adds and removes the info-hash.  Here `threads`  *)
(* is a record:                                                            *)
(*   worker   where the worker is in handleAnnounce, and its request       *)
(*   removed  history: the info-hashes for which removeTorrent has         *)
(*            returned and addTorrent has not been called since            *)
(***************************************************************************)
NoAnnounce == [worker |-> [pc |-> "idle", remote |-> NoRequest, req |-> NoRequest],
               removed |-> {}]

\* handleAnnounce, lines 203-229, and the filter of resolveRequest before it: the
\* request passes every check.
Admitted(remote, req) ==
    /\ conf.allow_iana_ips \/ isIANAIP(remote.s_addr) = 0
    /\ verifyConnectionId(req.connection_id, m_hton32(remote.s_addr),
                          m_hton16(remote.sin_port), now)
    /\ conf.allow_remotes \/ m_hton32(req.ip_address) = Fill(4, 0)
    /\ isTorrentAllowed(db, conf.is_dynamic, req.info_hash)

\* A worker receives an announce and checks it: a request that fails a check is
\* answered or dropped at once, one that passes is served in the next step.
AnnounceCheck ==
    /\ ops < MaxOps
    /\ threads.worker.pc = "idle"
    /\ \E a \in AnnounceInputs :
          LET remote == a.client.remote
              req == AnnounceRequest(a.client,
                                     IF a.valid THEN CurrentCid(a.client.remote)
                                     ELSE BogusConnectionId,
                                     a.info_hash, a.report)
          IN  IF Admitted(remote, req)
              THEN /\ threads' = [threads EXCEPT
                                     !.worker = [pc |-> "admitted", remote |-> remote,
                                                 req |-> req]]
                   /\ UNCHANGED <<db, last, evicted>>
              ELSE /\ resolveAnnounce(remote, req)
                   /\ UNCHANGED threads
    /\ ops' = ops + 1
    /\ UNCHANGED <<now, conf, issued, presented>>

\* The worker serves the request it admitted.
AnnounceServe ==
    /\ threads.worker.pc = "admitted"
    /\ handleAnnounceServe(threads.worker.remote, threads.worker.req)
    /\ threads' = [threads EXCEPT !.worker = NoAnnounce.worker]
    /\ UNCHANGED <<now, conf, ops, issued, presented>>

\* The control interface adds an info-hash.
ApiAdd ==
    /\ ops < MaxOps
    /\ \E h \in {HashTest} :
        /\ db' = addTorrent(db, h, now)
        /\ last' = Handled("add", NoRequest, [info_hash |-> h], "done", NoDatagram)
        /\ threads' = [threads EXCEPT !.removed = @ \ {h}]
    /\ ops' = ops + 1
    /\ UNCHANGED <<now, conf, evicted, issued, presented>>

\* The control interface removes an info-hash.
ApiRemove ==
    /\ ops < MaxOps
    /\ \E h \in {HashTest} :
        /\ db' = removeTorrent(db, h)
        /\ last' = Handled("remove", NoRequest, [info_hash |-> h], "done", NoDatagram)
        /\ threads' = [threads EXCEPT !.removed = @ \cup {h}]
    /\ ops' = ops + 1
    /\ UNCHANGED <<now, conf, evicted, issued, presented>>

\* The tracker runs in static or in dynamic mode, and HashTest has been added.
InitAdmit ==
    /\ db = addTorrent(EmptyDb, HashTest, StartTime)
    /\ now = StartTime
    /\ conf \in {DefaultConfig, [DefaultConfig EXCEPT !.is_dynamic = FALSE]}
    /\ last = [op |-> "start", remote |-> NoRequest, req |-> NoRequest, outcome |-> "done",
               sent |-> NoDatagram, time |-> StartTime, pre |-> EmptyDb]
    /\ evicted = {}
    /\ ops = 0
    /\ issued = {}
    /\ presented = NoRequest
    /\ threads = NoAnnounce

NextAdmit == AnnounceCheck \/ AnnounceServe \/ ApiAdd \/ ApiRemove

SpecAdmit == InitAdmit /\ [][NextAdmit]_vars


(***************************************************************************)
(* Properties.                                                             *)
(***************************************************************************)
Served == last.op = "announce" /\ last.outcome = "served"
LastHash == last.req.info_hash
LastEndpoint == AnnouncedEndpoint(last.remote, last.req)
LastEvent == TrackerEvent(m_hton32(last.req.event))
LastLeft == m_hton64(last.req.left)
LastCidValid ==
    verifyConnectionId(last.req.connection_id, m_hton32(last.remote.s_addr),
                       m_hton16(last.remote.sin_port), last.time)

RowsOf(d, h) == IF TableName(h) \in DOMAIN d.tables THEN d.tables[TableName(h)] ELSE {}
SeederRows(rows) == {r \in rows : r.left = Fill(8, 0)}
LeecherRows(rows) == {r \in rows : r.left /= Fill(8, 0)}
Bucket(t) == t \div BucketSeconds

\* The peer-list entry of a stored endpoint: ip then port, in network byte order.
NetworkOrder(e) == m_byteswap(e.ip, 4) \o m_byteswap(e.port, 2)

\* C1: no peer table holds two rows with the same (ip, port), and after a served
\* announce the swarm holds exactly one row for the announced endpoint: the row
\* of that announce.
C1_UniqueEndpoint ==
    /\ \A n \in DOMAIN db.tables : \A r1, r2 \in db.tables[n] :
          Endpoint(r1) = Endpoint(r2) => r1 = r2
    /\ Served =>
          {r \in RowsOf(db, LastHash) : Endpoint(r) = LastEndpoint}
            = {[peer_id |-> last.req.peer_id, ip |-> LastEndpoint.ip,
                port |-> LastEndpoint.port, uploaded |-> m_hton64(last.req.uploaded),
                downloaded |-> m_hton64(last.req.downloaded), left |-> LastLeft,
                last_seen |-> last.time]}

\* An announce was served for an endpoint the swarm already held under another peer id.
C1_Witness ==
    /\ Served
    /\ \E r \in RowsOf(last.pre, LastHash) :
          Endpoint(r) = LastEndpoint /\ r.peer_id /= last.req.peer_id

\* C2: after a served announce with event STOP the announced endpoint is not in the
\* swarm's peer table, getPeers does not return it, and the swarm's seeders and
\* leechers count the remaining rows.
C2_StopRemovesPeer ==
    (Served /\ LastEvent = EVENT_STOP) =>
        /\ LastEndpoint \notin Endpoints(RowsOf(db, LastHash))
        /\ \A peers \in getPeers(db, LastHash, PeerCap) : LastEndpoint \notin peers
        /\ getTorrentInfo(db, LastHash).seeders
             = Cardinality(SeederRows({r \in RowsOf(db, LastHash) : Endpoint(r) /= LastEndpoint}))
        /\ getTorrentInfo(db, LastHash).leechers
             = Cardinality(LeecherRows({r \in RowsOf(db, LastHash) : Endpoint(r) /= LastEndpoint}))

\* C3: the seeders and leechers of an announce response are those of the store after
\* the announce's own update; the first announce of a leecher to an empty swarm in
\* dynamic mode is answered seeders = 0, leechers = 1.
C3_StatsAfterUpdate ==
    Served =>
        /\ last.sent.seeders = Wire(getTorrentInfo(db, LastHash).seeders, 4)
        /\ last.sent.leechers = Wire(getTorrentInfo(db, LastHash).leechers, 4)
        /\ (conf.is_dynamic /\ RowsOf(last.pre, LastHash) = {} /\ LastLeft /= Fill(8, 0))
              => (last.sent.seeders = Wire(0, 4) /\ last.sent.leechers = Wire(1, 4))

\* C4: when a cleanup pass was the last operation on the store, every swarm's stored
\* seeders is the number of its rows with left = 0 and its stored leechers the
\* number of its rows with left > 0.
C4_CleanupAggregates ==
    last.op = "cleanup" =>
        \A h \in InfoHashes :
            TableName(h) \in DOMAIN db.tables =>
                /\ getTorrentInfo(db, h).seeders = Cardinality(SeederRows(RowsOf(db, h)))
                /\ getTorrentInfo(db, h).leechers = Cardinality(LeecherRows(RowsOf(db, h)))

\* C5: a cleanup pass leaves no row whose last_seen is older than the pass's time
\* minus 7200 s, and an announce response lists no endpoint that a pass deleted and
\* that has not announced since.
C5_ExpiredPeersGone ==
    /\ last.op = "cleanup" =>
          \A n \in TorrentTables(db) : \A r \in db.tables[n] :
              ~(r.last_seen < last.time - EvictionHorizon)
    /\ Served =>
          \A e \in evicted :
              e.table = TableName(LastHash) => NetworkOrder(e) \notin last.sent.peers

\* A peer was deleted by a cleanup pass, and a later announce of another peer for the
\* same swarm asked for peers and was served.
C5_Witness ==
    /\ Served
    /\ LastEvent /= EVENT_STOP
    /\ \E e \in evicted : e.table = TableName(LastHash)

\* C6 (as stated): in static mode an announce with a valid connection id for an
\* info-hash that has no row in torrents is answered with an Error datagram carrying
\* the request's transaction id, and the store is left as it was.
C6_StaticRejectsUnknown ==
    (/\ last.op = "announce"
     /\ ~conf.is_dynamic
     /\ LastCidValid
     /\ LastHash \notin DOMAIN last.pre.torrents)
    => (/\ last.sent.kind = "error"
        /\ last.sent.transaction_id = last.req.transaction_id
        /\ db = last.pre)

\* C6 (amended): the same, for an announce whose source address passes the
\* reserved-address filter of the dispatcher (or when the filter is off).
C6_StaticRejectsUnknownRoutable ==
    (/\ last.op = "announce"
     /\ ~conf.is_dynamic
     /\ LastCidValid
     /\ LastHash \notin DOMAIN last.pre.torrents
     /\ (conf.allow_iana_ips \/ isIANAIP(last.remote.s_addr) = 0))
    => (/\ last.sent.kind = "error"
        /\ last.sent.transaction_id = last.req.transaction_id
        /\ db = last.pre)

\* A static-mode tracker answered a valid announce for an unregistered info-hash.
C6_Witness ==
    /\ last.op = "announce"
    /\ ~conf.is_dynamic
    /\ LastCidValid
    /\ LastHash \notin DOMAIN last.pre.torrents
    /\ isIANAIP(last.remote.s_addr) = 0
    /\ last.outcome = "not_registered"
    /\ last.sent.kind = "error"

\* C7: in dynamic mode a served announce for an info-hash with no peer table
\* creates the swarm (torrents row and peer table) holding the announcer, and a
\* served non-STOP announce from another endpoint to a swarm holding one peer is
\* answered with a peer list of exactly that peer, ip and port in network order.
C7_DynamicFirstAnnounce ==
    (Served /\ conf.is_dynamic) =>
        /\ TableName(LastHash) \notin DOMAIN last.pre.tables =>
              /\ LastHash \in DOMAIN db.torrents
              /\ Endpoints(RowsOf(db, LastHash)) = {LastEndpoint}
        /\ \A first \in RowsOf(last.pre, LastHash) :
              (/\ RowsOf(last.pre, LastHash) = {first}
               /\ Endpoint(first) /= LastEndpoint
               /\ LastEvent /= EVENT_STOP)
              => (/\ last.sent.peers = {NetworkOrder(Endpoint(first))}
                  /\ last.sent.size = 20 + 6)

\* A second, non-STOP announce from a different endpoint was served for a swarm that
\* an earlier first announce created and that holds only that first peer.
C7_Witness ==
    /\ Served
    /\ conf.is_dynamic
    /\ LastEvent /= EVENT_STOP
    /\ LastHash \in DOMAIN last.pre.torrents
    /\ \E first \in RowsOf(last.pre, LastHash) :
          /\ RowsOf(last.pre, LastHash) = {first}
          /\ Endpoint(first) /= LastEndpoint
          /\ last.sent.peers = {NetworkOrder(Endpoint(first))}

\* C8: a connection id issued by a Connect response is accepted when the same
\* source endpoint presents it in the hour bucket in which it was issued.
C8_SameEndpointAccepted ==
    (/\ presented /= NoRequest
     /\ presented.remote = presented.token.remote
     /\ Bucket(presented.time) = Bucket(presented.token.time))
    => presented.accepted

\* A token was presented by its own endpoint, later than its issue but in the same bucket.
C8_Witness ==
    /\ presented /= NoRequest
    /\ presented.remote = presented.token.remote
    /\ Bucket(presented.time) = Bucket(presented.token.time)
    /\ presented.time > presented.token.time
    /\ presented.accepted

\* C9: a connection id issued to one source endpoint is rejected when presented
\* from an endpoint that differs in port or only in IPv4 address.
C9_OtherEndpointRejected ==
    (/\ presented /= NoRequest
     /\ presented.remote /= presented.token.remote)
    => ~presented.accepted

\* C10: a connection id issued two or more hour buckets before it is presented is
\* rejected.
C10_OldBucketRejected ==
    (/\ presented /= NoRequest
     /\ Bucket(presented.time) - Bucket(presented.token.time) >= 2)
    => ~presented.accepted

\* C15: a served announce with event COMPLETE raises the swarm's completed counter
\* (the value getTorrentInfo reports, which is what a scrape sends) by exactly one,
\* and no other announce and no cleanup pass raises it.
C15_CompleteIncrements ==
    /\ (Served /\ LastEvent = EVENT_COMPLETE) =>
          getTorrentInfo(db, LastHash).completed
            = getTorrentInfo(last.pre, LastHash).completed + 1
    /\ (last.op \in {"announce", "cleanup"} /\ ~(Served /\ LastEvent = EVENT_COMPLETE)) =>
          \A h \in InfoHashes :
              getTorrentInfo(db, h).completed <= getTorrentInfo(last.pre, h).completed

\* C16: over an announce (any event) or a cleanup pass that leaves the swarm in place,
\* the completed value getTorrentInfo reports for the swarm does not decrease.
C16_CompletedMonotone ==
    last.op \in {"announce", "cleanup"} =>
        \A h \in InfoHashes :
            (h \in DOMAIN last.pre.torrents /\ h \in DOMAIN db.torrents) =>
                getTorrentInfo(db, h).completed >= getTorrentInfo(last.pre, h).completed

\* A cleanup pass rewrote the stats row that an earlier pass had stored for a swarm.
C16_Witness ==
    /\ last.op = "cleanup"
    /\ \E h \in InfoHashes :
          /\ h \in DOMAIN last.pre.torrents
          /\ h \in DOMAIN db.torrents
          /\ getTorrentInfo(last.pre, h).gotInfo
          /\ getTorrentInfo(db, h).gotInfo
          /\ RowsOf(db, h) /= {}

\* C17: immediately after a served announce the swarm's stored seeders is the number
\* of its peers with left = 0 and its stored leechers the number with left > 0.
C17_IncrementalAggregates ==
    Served =>
        /\ getTorrentInfo(db, LastHash).seeders
             = Cardinality(SeederRows(RowsOf(db, LastHash)))
        /\ getTorrentInfo(db, LastHash).leechers
             = Cardinality(LeecherRows(RowsOf(db, LastHash)))

\* C19 (as stated): with allow_remotes false, an announce with a valid connection id
\* and a non-zero ip field is answered with an Error datagram and the store is left
\* as it was.
C19_RemoteIpRefused ==
    (/\ last.op = "announce"
     /\ ~conf.allow_remotes
     /\ LastCidValid
     /\ last.req.ip_address /= Fill(4, 0))
    => (/\ last.sent.kind = "error"
        /\ db = last.pre)

\* C19 (amended): the same, for an announce whose source address passes the
\* reserved-address filter of the dispatcher (or when the filter is off).
C19_RemoteIpRefusedRoutable ==
    (/\ last.op = "announce"
     /\ ~conf.allow_remotes
     /\ LastCidValid
     /\ last.req.ip_address /= Fill(4, 0)
     /\ (conf.allow_iana_ips \/ isIANAIP(last.remote.s_addr) = 0))
    => (/\ last.sent.kind = "error"
        /\ last.sent.transaction_id = last.req.transaction_id
        /\ db = last.pre)

\* With allow_remotes false, an announce naming another address in its ip field was
\* refused although the swarm it names exists.
C19_Witness ==
    /\ last.op = "announce"
    /\ ~conf.allow_remotes
    /\ LastCidValid
    /\ last.req.ip_address /= Fill(4, 0)
    /\ isIANAIP(last.remote.s_addr) = 0
    /\ last.outcome = "remote_ip"
    /\ last.sent.kind = "error"
    /\ RowsOf(db, LastHash) /= {}

\* C20: a served announce stores or replaces exactly one row, the announcer's, and
\* its endpoint is (ip field, port field) when the ip field is non-zero and
\* (source address of the datagram, port field) when it is zero.
C20_StoredEndpoint ==
    Served =>
        \E r \in RowsOf(db, LastHash) :
            /\ RowsOf(db, LastHash) \ RowsOf(last.pre, LastHash) \subseteq {r}
            /\ r.peer_id = last.req.peer_id
            /\ r.last_seen = last.time
            /\ NetworkOrder(Endpoint(r))
                 = (IF last.req.ip_address /= Fill(4, 0) THEN last.req.ip_address
                    ELSE last.remote.s_addr) \o last.req.port

\* An announce that names another address in its ip field was served, in a swarm
\* that already held the peer at the datagram's source address.
C20_Witness ==
    /\ Served
    /\ last.req.ip_address /= Fill(4, 0)
    /\ last.req.ip_address /= last.remote.s_addr
    /\ \E r \in RowsOf(last.pre, LastHash) :
          NetworkOrder(Endpoint(r)) = last.remote.s_addr \o last.req.port

\* C12: the peer list of a served announce that is not STOP has
\* min(30, num_want, peers stored for the swarm) entries, a num_want below 1
\* counting as 30; the peer list of a served STOP announce is empty.
C12_PeerCount ==
    Served =>
        LET num_want == ToInt32(m_byteswap(last.req.num_want, 4))
            wanted == IF num_want < 1 THEN 30 ELSE num_want
            stored == Cardinality(RowsOf(last.pre, LastHash))
            expected == IF LastEvent = EVENT_STOP THEN 0
                        ELSE Min(30, Min(wanted, stored))
        IN  /\ Cardinality(last.sent.peers) = expected
            /\ last.sent.size = 20 + 6 * expected

\* An announce that is not STOP and asks for the default (num_want below 1) was
\* served from a swarm of more than 30 peers, with 30 of them.
C12_Witness ==
    /\ Served
    /\ LastEvent /= EVENT_STOP
    /\ ToInt32(m_byteswap(last.req.num_want, 4)) < 1
    /\ Cardinality(RowsOf(last.pre, LastHash)) > 30
    /\ Cardinality(last.sent.peers) = 30

\* The first octets of the address blocks 0/8, 10/8, 127/8 (loopback) and 224/3
\* (multicast and above).
ReservedFirstOctets == {0, 10, 127} \cup (224..255)
WireOps == {"connect", "announce", "scrape", "unknown"}

\* C11: an announce or scrape datagram whose connection id fails verification is
\* answered with no datagram at all and leaves the store as it was, whatever its
\* length.
C11_BadConnectionIdSilent ==
    (/\ last.op \in {"announce", "scrape"}
     /\ ~LastCidValid)
    => (/\ last.sent = NoDatagram
        /\ db = last.pre)

\* C13: a scrape with a valid connection id is answered with a scrape response
\* (action 2) whose triples are (0, 0, 0) for the info-hashes the store does not know
\* and the stored stats for those it knows.
C13_ScrapeUnknownHash ==
    (/\ last.op = "scrape"
     /\ LastCidValid
     /\ last.outcome /= "iana"
     /\ last.req.len >= 16 /\ (last.req.len - 16) % 20 = 0)
    => (/\ last.sent.kind = "scrape"
        /\ last.sent.action = Wire(2, 4)
        /\ \A i \in 1..Len(last.req.info_hashes) :
              LET stats == getTorrentInfo(last.pre, last.req.info_hashes[i])
              IN  last.sent.triples[i]
                    = [seeders |-> Wire(IF stats.gotInfo THEN stats.seeders ELSE 0, 4),
                       completed |-> Wire(IF stats.gotInfo THEN stats.completed ELSE 0, 4),
                       leechers |-> Wire(IF stats.gotInfo THEN stats.leechers ELSE 0, 4)])

\* C14: a scrape response to a request that lists k info-hashes is 8 + 12*k bytes
\* long and its i-th triple is that of the i-th listed info-hash.
C14_ScrapeResponseLength ==
    (last.op = "scrape" /\ last.sent.kind = "scrape") =>
        LET k == Len(last.req.info_hashes)
        IN  /\ last.sent.size = 8 + 12 * k
            /\ Len(last.sent.triples) = k
            /\ \A i \in 1..k :
                  LET stats == getTorrentInfo(last.pre, last.req.info_hashes[i])
                  IN  /\ last.sent.triples[i].seeders = Wire(stats.seeders, 4)
                      /\ last.sent.triples[i].completed = Wire(stats.completed, 4)
                      /\ last.sent.triples[i].leechers = Wire(stats.leechers, 4)

C21_ErrorBound ==
    last.op = "error" =>
        (last.sent = NoDatagram <=> 8 + Len(last.req.message) > 1024)

\* The swarm of h is gone from d: no torrents row, no peer table, no stats row.
SwarmGone(d, h) ==
    /\ h \notin DOMAIN d.torrents
    /\ TableName(h) \notin DOMAIN d.tables
    /\ h \notin DOMAIN d.stats

\* C22: in dynamic mode a cleanup pass drops entirely every swarm that has no
\* unexpired peer and whose stats row was last modified before the eviction horizon;
\* in static mode a swarm persists over every operation but remove_torrent.
C22_EmptySwarmDropped ==
    /\ (last.op = "cleanup" /\ conf.is_dynamic) =>
          \A h \in InfoHashes :
              (/\ TableName(h) \in DOMAIN last.pre.tables
               /\ Survivors(last.pre, TableName(h), last.time - EvictionHorizon) = {}
               /\ h \in DOMAIN last.pre.stats
               /\ last.pre.stats[h].last_mod < last.time - EvictionHorizon)
              => SwarmGone(db, h)
    /\ (~conf.is_dynamic /\ last.op /= "remove") =>
          \A h \in DOMAIN last.pre.torrents :
              h \in DOMAIN db.torrents /\ TableName(h) \in DOMAIN db.tables

Malformed(req) ==
    LET action == ToNat(m_byteswap(req.action, 4))
    IN  /\ ~(action = 0 /\ req.len >= 16)
        /\ ~(action = 1 /\ req.len >= 98)
        /\ ~(action = 2 /\ req.len >= 16 /\ (req.len - 16) % 20 = 0)

\* C28: a connect request of at least 16 bytes whose connection_id field is not the
\* magic 0x41727101980 is answered with no datagram.
C28_BadMagicSilent ==
    (/\ last.op = "connect"
     /\ last.req.len >= 16
     /\ last.req.connection_id /= MagicConnectionId)
    => last.sent = NoDatagram

C23_StopTerminates ==
    (threads.main = "stopped") ~> (threads.main = "done")

\* C27: when start() has returned, the tracker runs tracker.threads worker threads
\* and one maintenance thread.
C27_ThreadsSpawned ==
    threads.main = "running" =>
        /\ threads.workers.loop + threads.workers.recv + threads.workers.exited
             = threads.configured
        /\ threads.maintenance /= "none"

\* C30: a POST or DELETE request of the control interface that does not come from
\* the loopback address is answered 403 and leaves the store as it was.
C30_LoopbackOnly ==
    (/\ last.op = "api"
     /\ last.req.method \in {"POST", "DELETE"}
     /\ last.remote.s_addr /= Loopback.s_addr)
    => (/\ last.sent.code = 403
        /\ db = last.pre)

\* The swarm of h is out of the torrents table, and its stats row or its peer table
\* is still there.
HalfRemoved(d, h) ==
    /\ h \notin DOMAIN d.torrents
    /\ h \in DOMAIN d.stats \/ TableName(h) \in DOMAIN d.tables

\* This step is a worker's announce for h that reaches the store.
AnnounceStepFor(h) ==
    /\ ops' = ops + 1
    /\ last'.op = "announce"
    /\ last'.outcome \notin {"iana", "bad_connection_id"}
    /\ last'.req.info_hash = h

\* This step is a statement of cleanup on the peer table of h.
CleanupStepFor(h) ==
    /\ threads'.maintenance /= threads.maintenance
    /\ threads.maintenance.pc \in {"delete", "count", "write"}
    /\ Head(threads.maintenance.tables) = TableName(h)

\* C25: no announce and no statement of cleanup that concerns h runs between two
\* statements of a remove_torrent(h) while h is out of the torrents table and its
\* stats row or its peer table still exists.
C25_RemoveAtomic ==
    [][(/\ threads.api.pc \in {"stats", "table"}
        /\ HalfRemoved(db, threads.api.info_hash))
       => ~(AnnounceStepFor(threads.api.info_hash)
            \/ CleanupStepFor(threads.api.info_hash))]_vars

\* C26: no served announce updates a swarm between cleanup's DELETE on that swarm
\* and its write of the swarm's aggregates, and the seeders and leechers that
\* cleanup writes add up to the number of peers the swarm holds when they are
\* written.
C26_CleanupSerialized ==
    [][/\ (ops' = ops + 1 /\ last'.op = "announce" /\ last'.outcome = "served")
          => ~(/\ threads.maintenance.pc \in {"count", "write"}
               /\ Head(threads.maintenance.tables) = TableName(last'.req.info_hash))
       /\ (threads.maintenance.pc = "write" /\ threads'.maintenance /= threads.maintenance)
          => (Head(threads.maintenance.tables) \in DOMAIN db.tables
              => threads.maintenance.seeders + threads.maintenance.leechers
                   = Cardinality(db.tables[Head(threads.maintenance.tables)]))
      ]_vars

\* C31: m_hton16, m_hton32 and m_hton64 return their argument with its bytes in the
\* opposite order, whatever the bytes, and applied to their own result they return
\* the argument.
C31_SwapReverses ==
    last.op = "swapped" =>
        /\ Len(last.r) = Len(last.n)
        /\ \A i \in 1..Len(last.n) : last.r[i] = last.n[Len(last.n) + 1 - i]
        /\ last.rr = last.n

\* A helper was applied to one of the values 0xDEAD, 0xDEADBEEF and
\* 0xDEADBEEFA1B2C3E4, whose bytes all differ.
C31_Witness ==
    /\ last.op = "swapped"
    /\ last.n \in {<<173, 222>>, <<239, 190, 173, 222>>, Magic64}
    /\ last.r /= last.n

\* C32: the peer list of an announce response never holds the endpoint the
\* announcing peer is stored under, on its first announce to the swarm or on a
\* later one.
C32_NoSelfInPeers ==
    Served => PeerListEntry(LastEndpoint) \notin last.sent.peers

\* C32 (amended): the peer list holds only endpoints the swarm held before the
\* announce was stored, so it does not hold the announcing peer's endpoint when the
\* swarm had no row for that endpoint yet.
C32_NoSelfOnFirstAnnounce ==
    Served =>
        /\ last.sent.peers \subseteq
              {PeerListEntry(p) : p \in Endpoints(RowsOf(last.pre, LastHash))}
        /\ LastEndpoint \notin Endpoints(RowsOf(last.pre, LastHash))
              => PeerListEntry(LastEndpoint) \notin last.sent.peers

\* A peer's first announce to a swarm that held another peer was answered with that
\* peer, and the announcing peer is in the swarm afterwards.
C32_Witness ==
    /\ Served
    /\ LastEndpoint \notin Endpoints(RowsOf(last.pre, LastHash))
    /\ last.sent.peers /= {}
    /\ LastEndpoint \in Endpoints(RowsOf(db, LastHash))

\* C33: a cleanup pass leaves the torrents table as it was, creates and drops no
\* peer table, changes no row it keeps, and keeps every row whose last announce
\* was stored less than 7200 s before the pass.
C33_CleanupKeepsFresh ==
    last.op = "cleanup" =>
        /\ db.torrents = last.pre.torrents
        /\ DOMAIN db.tables = DOMAIN last.pre.tables
        /\ \A n \in DOMAIN db.tables :
              /\ db.tables[n] \subseteq last.pre.tables[n]
              /\ \A r \in last.pre.tables[n] :
                    last.time - r.last_seen < EvictionHorizon => r \in db.tables[n]

\* A cleanup pass found a swarm holding a peer that had just announced and a peer
\* that had expired, kept the first and deleted the second.
C33_Witness ==
    /\ last.op = "cleanup"
    /\ \E n \in DOMAIN last.pre.tables :
          /\ \E r \in last.pre.tables[n] :
                last.time - r.last_seen < EvictionHorizon /\ r \in db.tables[n]
          /\ \E r \in last.pre.tables[n] :
                last.time - r.last_seen > EvictionHorizon /\ r \notin db.tables[n]

\* C34: when sendError does not reject the message, its copy loop reads only the
\* characters of the message and its terminator, indices 0 .. length, and writes
\* only indices 0 .. 1023 of buff.
C34_CopyInBounds ==
    (last.op = "error" /\ sendError(last.req.transaction_id, last.req.message) /= NoDatagram)
    => /\ sendErrorReads(last.req.message) \subseteq 0..Len(last.req.message)
       /\ sendErrorWrites(last.req.message) \subseteq 0..(ErrorBufferSize - 1)

\* C35: for a scrape datagram of at most 2048 bytes, with a valid length and a valid
\* connection id, handleScrape writes only indices 0 .. 1023 of its buffer.
C35_ScrapeInBounds ==
    (/\ last.op = "scrape"
     /\ last.outcome \in {"served", "no_torrent_data"}
     /\ last.req.len <= UDP_BUFFER_SIZE)
    => handleScrapeWrites(last.pre, last.req) \subseteq 0..(ScrapeBufferSize - 1)

\* C36: the response to a datagram of at most 12 bytes does not carry, as its
\* transaction id, the four bytes that the datagram received before it from another
\* client left at offset 12 of the receive buffer.
C36_NoStaleFields ==
    (/\ last.op /= "start"
     /\ last.req.len <= 12
     /\ threads.prev /= NoRequest /\ threads.prev /= threads.from
     /\ threads.prev_r = HeaderSize
     /\ last.sent.kind = "error")
    => last.sent.transaction_id /= SubSeq(threads.held, 13, 16)

\* C37: in static mode an info-hash for which remove_torrent has returned, and
\* add_torrent has not been called since, has no torrents row and no peer table.
C37_RemovedStaysOut ==
    ~conf.is_dynamic =>
        \A h \in threads.removed :
            /\ h \notin DOMAIN db.torrents
            /\ TableName(h) \notin DOMAIN db.tables

\* C38: the maintenance thread leaves its loop only when stop() has been called:
\* whenever its wait has returned without a timeout, or the thread has exited,
\* stop() has notified it.
C38_ExitsOnlyOnStop ==
    threads.maintenance \in {"notified", "exited"} => threads.main \in {"stopped", "done"}

\* C39: the stats row that updatePeer writes with an announce for h, and the stats
\* row that a cleanup pass writes for the swarm of h, is the row that
\* getTorrentInfo(h) reads.
C39_StatsKeyedByHash ==
    /\ Served =>
          /\ getTorrentInfo(db, LastHash).gotInfo
          /\ db.stats[LastHash].last_mod = last.time
    /\ last.op = "cleanup" =>
          \A h \in InfoHashes :
              TableName(h) \in DOMAIN db.tables =>
                  /\ getTorrentInfo(db, h).gotInfo
                  /\ db.stats[h].last_mod = last.time

\* C40: for a request of the control interface whose info_hash parameter is the hex
\* string of a 20-byte hash h, in lower or in upper case, str_to_hash returns 0 and
\* delivers the bytes of h, and h is the info-hash that is added.
C40_HexRoundTrip ==
    (/\ last.op = "api"
     /\ last.req.method \in {"POST", "DELETE"}
     /\ last.req.query
     /\ Len(last.req.info_hash) = 1)
    => \A h \in InfoHashes :
          last.req.info_hash[1] \in {hash_to_str(h), UpperCase(hash_to_str(h))} =>
              /\ str_to_hash(last.req.info_hash[1]).result = 0
              /\ str_to_hash(last.req.info_hash[1]).hash = h
              /\ last.req.method = "POST" => h \in DOMAIN db.torrents

====
